---- MODULE Spec2Model ----
(***************************************************************************)
(* A model of simple-dht-node: the routing table (routing_table.py), the   *)
(* stored node and its freshness (data_structures.py), the message         *)
(* classifier and the sender validator (utils.py) and the node's receive   *)
(* and maintenance loops (dht_node.py).                                    *)
(*                                                                         *)
(* Identifiers are hex strings in the program; here an identifier is the   *)
(* tuple of its hex digits (0..15), so that the common prefix of two       *)
(* identifiers is computed digit by digit as os.path.commonprefix does.    *)
(* Time is counted in seconds; datetime.now() and the blocklist's timer    *)
(* read the one clock `now`.                                               *)
(***************************************************************************)
EXTENDS Integers, Sequences, FiniteSets, TLC

----------------------------------------------------------------------------
(* Program constants *)

\* len of a well-formed hex id (utils.py: calculate_distance, is_valid_node)
IdLen == 40
\* routing_table.py: "distance <= 36"
NearDistance == 36
\* routing_table.py: "len(self._nodes) < 7" and "[:7]"
SmallTable == 7
\* utils.py: "node_distance < 30"
MinValidDistance == 30
\* data_structures.py: timedelta(minutes=5), in seconds
QuestionableAfter == 300
\* data_structures.py: timedelta(minutes=15), in seconds
UnresponsiveAfter == 900
\* Optional[datetime] that is None
None == -1
\* dht_node.py: TTLCache(maxsize=1000, ...)
BlocklistMaxSize == 1000
\* dht_node.py: TTLCache(..., ttl=3600 * 24), in seconds
BlocklistTTL == 86400
\* dht_node.py: "for _ in range(10)"
BootstrapRounds == 10
\* dht_node.py: self._stop_requested.wait(5)
BootstrapWait == 5
\* dht_node.py: self._stop_requested.wait(300)
MaintainWait == 300

----------------------------------------------------------------------------
(* Bounds of the model *)

\* the clock stops advancing past this many seconds
MaxNow == 1802
\* operations applied from outside: calls of the routing table's methods,
\* datagrams handed to the receive loop, stop and add_message_handler
MaxOps == 2
\* steps the maintenance thread is followed for
MaxSteps == 4
\* handlers registered with add_message_handler
MaxHandlers == 2

----------------------------------------------------------------------------
(* Identifiers *)

\* the local identifier: "a" * 40, the id the tests give the node
BaseId == [i \in 1..IdLen |-> 10]

\* an id that shares exactly k leading digits with BaseId (c # 10)
MkId(k, c) == [i \in 1..IdLen |-> IF i <= k THEN 10 ELSE c]

Min(a, b) == IF a <= b THEN a ELSE b

\* len(os.path.commonprefix([id_1, id_2]))
CommonPrefixLen(id_1, id_2) ==
    LET n == Min(Len(id_1), Len(id_2))
        differ == {i \in 1..n : id_1[i] # id_2[i]}
    IN  IF differ = {} THEN n
        ELSE (CHOOSE i \in differ : \A j \in differ : i <= j) - 1

\* calculate_distance with the prefix counted one digit too long
calculate_distance_off(id_1, id_2) == IdLen - 1 - CommonPrefixLen(id_1, id_2)

calculate_distance(id_1, id_2) == IdLen - CommonPrefixLen(id_1, id_2)

----------------------------------------------------------------------------
(* Data structures (data_structures.py) *)

Node(id, ip, port) == [id |-> id, ip |-> ip, port |-> port]

Peer(info_hash, ip, port) == [info_hash |-> info_hash, ip |-> ip, port |-> port]

\* StoredNode(added=..., communicated=..., distance=..., peers=set(), **asdict(node))
StoredNode(node, added, communicated, distance) ==
    [id |-> node.id, ip |-> node.ip, port |-> node.port, added |-> added,
     communicated |-> communicated, distance |-> distance, peers |-> {}]

\* start_time = self.communicated or self.added (a datetime is always truthy)
start_time(n) == IF n.communicated # None THEN n.communicated ELSE n.added

is_questionable(n, t) == t > start_time(n) + QuestionableAfter

\* is_unresponsive with ">=" in place of ">"
is_unresponsive_ge(n, t) == t >= start_time(n) + UnresponsiveAfter

\* is_unresponsive that reads only the time of admission
is_unresponsive_added(n, t) == t > n.added + UnresponsiveAfter

is_unresponsive(n, t) == t > start_time(n) + UnresponsiveAfter

----------------------------------------------------------------------------
(* The routing table (routing_table.py).  self._nodes is a dict, which     *)
(* keeps its keys in insertion order: a sequence of StoredNode records     *)
(* with pairwise different ids.  Every operation holds the table's lock    *)
(* from start to end, so each is one atomic step on the sequence.          *)

Range(s) == {s[i] : i \in 1..Len(s)}

Has(T, id) == \E i \in 1..Len(T) : T[i].id = id

IndexOf(T, id) == CHOOSE i \in 1..Len(T) : T[i].id = id

Ids(T) == {T[i].id : i \in 1..Len(T)}

Entry(T, id) == T[IndexOf(T, id)]

\* self._nodes[key] = value: in place for a key of the dict, appended otherwise
DictSet(T, id, value) ==
    IF Has(T, id) THEN [T EXCEPT ![IndexOf(T, id)] = value] ELSE Append(T, value)

\* delete_unresponsive_nodes that keeps the unresponsive nodes instead
delete_unresponsive_nodes_inv(T, t) ==
    SelectSeq(T, LAMBDA n : is_unresponsive(n, t))

delete_unresponsive_nodes(T, t) ==
    SelectSeq(T, LAMBDA n : ~is_unresponsive(n, t))

get_all_nodes(T) == T

\* sorted() is stable: an element goes behind every element whose key is
\* not greater than its own
InsertByDistance(sorted, n, node_id) ==
    LET k == calculate_distance(node_id, n.id)
    IN  SelectSeq(sorted, LAMBDA m : calculate_distance(node_id, m.id) <= k)
        \o <<n>>
        \o SelectSeq(sorted, LAMBDA m : calculate_distance(node_id, m.id) > k)

RECURSIVE SortByDistance(_, _)
SortByDistance(T, node_id) ==
    IF T = <<>> THEN <<>>
    ELSE InsertByDistance(SortByDistance(SubSeq(T, 1, Len(T) - 1), node_id),
                          T[Len(T)], node_id)

\* get_closest_nodes without the sort: the first 7 in insertion order
get_closest_nodes_unsorted(T, node_id) == SubSeq(T, 1, Min(SmallTable, Len(T)))

\* get_closest_nodes that measures every distance from the base id
get_closest_nodes_base(T, node_id) ==
    SubSeq(SortByDistance(T, BaseId), 1, Min(SmallTable, Len(T)))

get_closest_nodes(T, node_id) ==
    SubSeq(SortByDistance(T, node_id), 1, Min(SmallTable, Len(T)))

\* the elements of a set in one order (a set's iteration order is not
\* specified in the program; nothing below depends on the order chosen)
RECURSIVE SetToSeq(_)
SetToSeq(S) ==
    IF S = {} THEN <<>>
    ELSE LET x == CHOOSE y \in S : TRUE IN <<x>> \o SetToSeq(S \ {x})

RECURSIVE get_peers(_, _)
get_peers(T, info_hash) ==
    IF T = <<>> THEN <<>>
    ELSE SetToSeq({p \in T[1].peers : p.info_hash = info_hash})
         \o get_peers(Tail(T), info_hash)

\* save_node with "<= 7" in place of "< 7"
save_node_le(T, node, communicated, t) ==
    IF node.id = BaseId THEN T
    ELSE IF Has(T, node.id) /\ communicated # None
    THEN [T EXCEPT ![IndexOf(T, node.id)].communicated = communicated]
    ELSE LET distance == calculate_distance(BaseId, node.id)
         IN  IF distance <= NearDistance \/ Len(T) <= SmallTable
             THEN DictSet(T, node.id, StoredNode(node, t, communicated, distance))
             ELSE T

\* save_node that also takes the ip and port of the node it is given when
\* it refreshes a stored node
save_node_addr(T, node, communicated, t) ==
    IF node.id = BaseId THEN T
    ELSE IF Has(T, node.id) /\ communicated # None
    THEN [T EXCEPT ![IndexOf(T, node.id)].communicated = communicated,
                   ![IndexOf(T, node.id)].ip = node.ip,
                   ![IndexOf(T, node.id)].port = node.port]
    ELSE LET distance == calculate_distance(BaseId, node.id)
         IN  IF distance <= NearDistance \/ Len(T) < SmallTable
             THEN DictSet(T, node.id, StoredNode(node, t, communicated, distance))
             ELSE T

\* save_node without the test for the base id
save_node_nobase(T, node, communicated, t) ==
    IF Has(T, node.id) /\ communicated # None
    THEN [T EXCEPT ![IndexOf(T, node.id)].communicated = communicated]
    ELSE LET distance == calculate_distance(BaseId, node.id)
         IN  IF distance <= NearDistance \/ Len(T) < SmallTable
             THEN DictSet(T, node.id, StoredNode(node, t, communicated, distance))
             ELSE T

\* save_node that admits a node whatever its distance and the table's size
save_node_nosize(T, node, communicated, t) ==
    IF node.id = BaseId THEN T
    ELSE IF Has(T, node.id) /\ communicated # None
    THEN [T EXCEPT ![IndexOf(T, node.id)].communicated = communicated]
    ELSE DictSet(T, node.id,
                 StoredNode(node, t, communicated,
                            calculate_distance(BaseId, node.id)))

save_node(T, node, communicated, t) ==
    IF node.id = BaseId THEN T
    ELSE IF Has(T, node.id) /\ communicated # None
    THEN [T EXCEPT ![IndexOf(T, node.id)].communicated = communicated]
    ELSE LET distance == calculate_distance(BaseId, node.id)
         IN  IF distance <= NearDistance \/ Len(T) < SmallTable
             THEN DictSet(T, node.id, StoredNode(node, t, communicated, distance))
             ELSE T

\* save_peer that stores the peer under the first node when node_id is absent
save_peer_any(T, peer, node_id) ==
    IF Has(T, node_id)
    THEN [T EXCEPT ![IndexOf(T, node_id)].peers = @ \cup {peer}]
    ELSE IF T = <<>> THEN T ELSE [T EXCEPT ![1].peers = @ \cup {peer}]

save_peer(T, peer, node_id) ==
    IF Has(T, node_id)
    THEN [T EXCEPT ![IndexOf(T, node_id)].peers = @ \cup {peer}]
    ELSE T

----------------------------------------------------------------------------
(* Decoded messages.  A bencoded value is a record with its type; a dict    *)
(* carries a record d whose fields are the keys present.  An id, a target  *)
(* or an info_hash of type bytes carries the tuple of its hex digits (what *)
(* .hex() renders).  The keys y, q and t of a message hold "" when absent. *)

Absent == [type |-> "absent"]

IntVal == [type |-> "int"]

Bytes(v) == [type |-> "bytes", v |-> v]

Dict(d) == [type |-> "dict", d |-> d]

\* what bencode.decode raises ValueError for
Undecodable == [type |-> "undecodable"]

Message(y, q, t, a, r) ==
    [type |-> "dict", y |-> y, q |-> q, t |-> t, a |-> a, r |-> r]

\* the keys of message.get(b"r", {}), when that is a mapping
Keys(v) == IF v.type = "dict" THEN DOMAIN v.d ELSE {}

----------------------------------------------------------------------------
(* utils.py *)

\* get_message_type; "raise" stands for the exception that leaves it when
\* the message has no .get or r is not a mapping (a value that is not a
\* mapping is an integer here)
get_message_type(message) ==
    IF message.type # "dict" THEN "raise"
    ELSE IF message.y = "q"
    THEN CASE message.q = "announce_peer" -> "announce_peer_request"
           [] message.q = "find_node" -> "find_node_request"
           [] message.q = "get_peers" -> "get_peers_request"
           [] message.q = "ping" -> "ping_request"
           [] message.q = "sample_infohashes" -> "sample_infohashes"
           [] message.q = "vote" -> "vote"
           [] OTHER -> "unknown"
    ELSE IF message.y = "r"
    THEN IF message.r.type \notin {"dict", "absent"} THEN "raise"
         ELSE IF "values" \in Keys(message.r) THEN "get_peers_response"
         ELSE IF "nodes" \in Keys(message.r) THEN "find_node_response"
         ELSE IF Keys(message.r) \subseteq {"id", "ip", "p"} THEN "ping_response"
         ELSE "unknown"
    ELSE IF message.y = "e" THEN "error"
    ELSE "unknown"

\* message[key][b"id"].hex(): raises when message[key] is no mapping, has no
\* id, or the id is not a byte string
IdOf(v) ==
    IF v.type # "dict" THEN [tag |-> "raise", id |-> <<>>]
    ELSE IF "id" \notin DOMAIN v.d THEN [tag |-> "raise", id |-> <<>>]
    ELSE IF v.d.id.type # "bytes" THEN [tag |-> "raise", id |-> <<>>]
    ELSE [tag |-> "id", id |-> v.d.id.v]

get_node_id(message) ==
    IF message.a.type # "absent" THEN IdOf(message.a)
    ELSE IF message.r.type # "absent" THEN IdOf(message.r)
    ELSE [tag |-> "none", id |-> <<>>]

\* is_valid_node without the test of the distance
is_valid_node_nodist(node, base_id) ==
    /\ node.ip # "0.0.0.0"
    /\ ~(node.port = 0 \/ node.port > 65535)
    /\ Len(node.id) = IdLen

\* is_valid_node that turns away distance 30 too
is_valid_node_le(node, base_id) ==
    /\ node.ip # "0.0.0.0"
    /\ ~(node.port = 0 \/ node.port > 65535)
    /\ Len(node.id) = IdLen
    /\ node.id # base_id
         => ~(calculate_distance(node.id, base_id) <= MinValidDistance)

is_valid_node(node, base_id) ==
    /\ node.ip # "0.0.0.0"
    /\ ~(node.port = 0 \/ node.port > 65535)
    /\ Len(node.id) = IdLen
    /\ node.id # base_id
         => ~(calculate_distance(node.id, base_id) < MinValidDistance)

----------------------------------------------------------------------------
(* The blocklist: cachetools.TTLCache(maxsize=1000, ttl=3600 * 24), a      *)
(* sequence of [ip, expires] in the order in which the ips were last set.  *)
(* An entry counts until the clock reaches its expiry.                     *)

BlockedContains(B, ip, t) ==
    \E i \in 1..Len(B) : B[i].ip = ip /\ t < B[i].expires

\* self._blocked_ips[ip] = ... that forgets every other entry
BlockedSet_only(B, ip, t) == <<[ip |-> ip, expires |-> t + BlocklistTTL]>>

\* self._blocked_ips[ip] = datetime.now(): expired entries go, then the
\* oldest entry if a new key finds the cache full, then the ip is (re)set
\* and becomes the newest
BlockedSet(B, ip, t) ==
    LET live == SelectSeq(B, LAMBDA e : t < e.expires)
        known == \E i \in 1..Len(live) : live[i].ip = ip
        room == IF ~known /\ Len(live) >= BlocklistMaxSize
                THEN Tail(live) ELSE live
        rest == SelectSeq(room, LAMBDA e : e.ip # ip)
    IN  Append(rest, [ip |-> ip, expires |-> t + BlocklistTTL])

----------------------------------------------------------------------------
(* The message handlers (dht_node.py).  A handler works on the record      *)
(* st = [nodes, blocked, out, counted, ran]: the routing table, the        *)
(* blocklist, the datagrams handed to sendto so far, how many of them      *)
(* sendto took, and the handlers called so far for this datagram, each     *)
(* with whether it raised.                                                 *)

OutMsg == [to |-> <<"", 0>>, t |-> "", y |-> "", q |-> "", id |-> <<>>,
           target |-> <<>>, has_nodes |-> FALSE, nodes |-> <<>>,
           has_values |-> FALSE, values |-> <<>>, has_token |-> FALSE]

\* Node.compact_info: struct.pack("!20s4sH", id, ip.encode("ascii"), port)
\* keeps the first four characters of the ip string
compact_info(n) ==
    [id |-> n.id, ip |-> SubSeq(n.ip, 1, Min(4, Len(n.ip))), port |-> n.port]

\* Peer.compact_info: struct.pack("!4sH", ip.encode("ascii"), port)
peer_compact_info(p) ==
    [ip |-> SubSeq(p.ip, 1, Min(4, Len(p.ip))), port |-> p.port]

\* struct.pack with the format H takes 0..65535 and raises struct.error for
\* any other port
Packable(port) == port \in 0..65535

\* utils.create_compact_node_info
create_compact_node_info(ns) == [i \in 1..Len(ns) |-> compact_info(ns[i])]

\* utils.parse_compact_node_info: the whole 26-byte records, in order; a
\* trailing partial record is dropped
parse_compact_node_info(data) ==
    [i \in 1..Len(data.records) |->
        Node(data.records[i].id, data.records[i].ip, data.records[i].port)]

\* send_message: the datagram is handed to sendto (out) and, when sendto
\* succeeds (ok), counted; an OSError or ValueError is logged and swallowed
send_message(st, msg, ok) ==
    [st EXCEPT !.out = Append(@, msg),
               !.counted = @ + (IF ok THEN 1 ELSE 0)]

Called(st, fn, raised) ==
    [st EXCEPT !.ran = Append(@, [fn |-> fn, raised |-> raised])]

HasKey(v, k) == v.type = "dict" /\ k \in DOMAIN v.d

\* a reply that carries a transaction id of its own
ReplyTo_fresh(message, node) ==
    [OutMsg EXCEPT !.to = <<node.ip, node.port>>, !.t = "random", !.y = "r",
                   !.id = BaseId]

\* {t: message[t], y: r, r: {id: self.id}} to (node.ip, node.port)
ReplyTo(message, node) ==
    [OutMsg EXCEPT !.to = <<node.ip, node.port>>, !.t = message.t, !.y = "r",
                   !.id = BaseId]

_save_node(st, message, node, t, ok) ==
    Called([st EXCEPT !.nodes = save_node(@, node, t, t)], "_save_node", FALSE)

_on_ping_request(st, message, node, t, ok) ==
    IF message.t = "" THEN Called(st, "_on_ping_request", TRUE)
    ELSE Called(send_message(st, ReplyTo(message, node), ok),
                "_on_ping_request", FALSE)

_on_find_node_request(st, message, node, t, ok) ==
    IF \/ ~HasKey(message.a, "target")
       \/ message.t = ""
       \/ \E n \in Range(get_closest_nodes(st.nodes, message.a.d.target)) :
             ~Packable(n.port)
    THEN Called(st, "_on_find_node_request", TRUE)
    ELSE LET closest_nodes == get_closest_nodes(st.nodes, message.a.d.target)
             msg == [ReplyTo(message, node) EXCEPT
                        !.has_nodes = TRUE,
                        !.nodes = create_compact_node_info(closest_nodes)]
         IN  Called(send_message(st, msg, ok), "_on_find_node_request", FALSE)

_on_get_peers_request(st, message, node, t, ok) ==
    IF \/ ~HasKey(message.a, "info_hash")
       \/ message.t = ""
       \/ \E p \in Range(get_peers(st.nodes, message.a.d.info_hash)) :
             ~Packable(p.port)
       \/ /\ get_peers(st.nodes, message.a.d.info_hash) = <<>>
          /\ \E n \in Range(get_closest_nodes(st.nodes,
                                               message.a.d.info_hash)) :
                ~Packable(n.port)
    THEN Called(st, "_on_get_peers_request", TRUE)
    ELSE LET peers == get_peers(st.nodes, message.a.d.info_hash)
             closest_nodes ==
                 get_closest_nodes(st.nodes, message.a.d.info_hash)
             msg == IF peers # <<>>
                    THEN [ReplyTo(message, node) EXCEPT
                            !.has_token = TRUE, !.has_values = TRUE,
                            !.values = [i \in 1..Len(peers) |->
                                           peer_compact_info(peers[i])]]
                    ELSE [ReplyTo(message, node) EXCEPT
                            !.has_nodes = TRUE,
                            !.nodes = create_compact_node_info(closest_nodes)]
         IN  Called(send_message(st, msg, ok), "_on_get_peers_request", FALSE)

\* _on_announce_peer_request that always takes the port the datagram came from
_on_announce_peer_request_srcport(st, message, node, t, ok) ==
    IF ~HasKey(message.a, "info_hash") \/ message.t = ""
    THEN Called(st, "_on_announce_peer_request", TRUE)
    ELSE LET peer == Peer(message.a.d.info_hash, node.ip, node.port)
             saved == [st EXCEPT !.nodes = save_peer(@, peer, node.id)]
         IN  Called(send_message(saved, ReplyTo(message, node), ok),
                    "_on_announce_peer_request", FALSE)

_on_announce_peer_request(st, message, node, t, ok) ==
    IF \/ message.a.type # "dict"
       \/ ~HasKey(message.a, "info_hash")
       \/ LET implied == IF HasKey(message.a, "implied_port")
                         THEN message.a.d.implied_port ELSE 0
          IN  implied = 0 /\ ~HasKey(message.a, "port")
    THEN Called(st, "_on_announce_peer_request", TRUE)
    ELSE LET implied == IF HasKey(message.a, "implied_port")
                        THEN message.a.d.implied_port ELSE 0
             port == IF implied # 0 THEN node.port ELSE message.a.d.port
             peer == Peer(message.a.d.info_hash, node.ip, port)
             saved == [st EXCEPT !.nodes = save_peer(@, peer, node.id)]
         IN  IF message.t = ""
             THEN Called(saved, "_on_announce_peer_request", TRUE)
             ELSE Called(send_message(saved, ReplyTo(message, node), ok),
                         "_on_announce_peer_request", FALSE)

\* the loop of _on_find_node_response without the validator
RECURSIVE SaveFound_all(_, _, _)
SaveFound_all(st, found, t) ==
    IF found = <<>> THEN st
    ELSE SaveFound_all([st EXCEPT !.nodes = save_node(@, Head(found), None, t)],
                       Tail(found), t)

\* the loop of _on_find_node_response over the parsed nodes
RECURSIVE SaveFound(_, _, _)
SaveFound(st, found, t) ==
    IF found = <<>> THEN st
    ELSE LET node == Head(found)
             st1 == IF ~is_valid_node(node, BaseId)
                    THEN [st EXCEPT !.blocked = BlockedSet(@, node.ip, t)]
                    ELSE [st EXCEPT !.nodes = save_node(@, node, None, t)]
         IN  SaveFound(st1, Tail(found), t)

_on_find_node_response(st, message, node, t, ok) ==
    IF ~HasKey(message.r, "nodes")
    THEN Called(st, "_on_find_node_response", TRUE)
    ELSE Called(SaveFound(st, parse_compact_node_info(message.r.d.nodes), t),
                "_on_find_node_response", FALSE)

\* a function registered with add_message_handler: it returns or it raises,
\* and touches nothing of the node
UserHandler(st, fn) == Called(st, fn, fn = "user_raises")

\* self._handlers[msg_type]
HandlersOf(msg_type) ==
    CASE msg_type = "announce_peer_request" -> <<"_on_announce_peer_request">>
      [] msg_type = "find_node_request" -> <<"_on_find_node_request">>
      [] msg_type = "find_node_response" -> <<"_on_find_node_response">>
      [] msg_type = "get_peers_request" -> <<"_on_get_peers_request">>
      [] msg_type = "ping_request" -> <<"_on_ping_request">>
      [] OTHER -> <<>>

\* the per-kind handlers ahead of the "all" chain
Chain_kindfirst(user, msg_type) ==
    HandlersOf(msg_type) \o <<"_save_node">> \o user

\* [*self._handlers["all"], *self._handlers[msg_type]], the "all" chain being
\* (self._save_node,) followed by the functions added, in the order added
Chain(user, msg_type) == <<"_save_node">> \o user \o HandlersOf(msg_type)

\* fn_(message, node) inside the try of the receive loop
Call(fn, st, message, node, t, ok) ==
    CASE fn = "_save_node" -> _save_node(st, message, node, t, ok)
      [] fn = "_on_announce_peer_request" ->
            _on_announce_peer_request(st, message, node, t, ok)
      [] fn = "_on_find_node_request" ->
            _on_find_node_request(st, message, node, t, ok)
      [] fn = "_on_find_node_response" ->
            _on_find_node_response(st, message, node, t, ok)
      [] fn = "_on_get_peers_request" ->
            _on_get_peers_request(st, message, node, t, ok)
      [] fn = "_on_ping_request" -> _on_ping_request(st, message, node, t, ok)
      [] OTHER -> UserHandler(st, fn)

\* the loop over the handlers left at the first exception
RECURSIVE RunChain_abort(_, _, _, _, _, _)
RunChain_abort(chain, st, message, node, t, ok) ==
    IF chain = <<>> THEN st
    ELSE LET st1 == Call(Head(chain), st, message, node, t, ok)
         IN  IF st1.ran[Len(st1.ran)].raised THEN st1
             ELSE RunChain_abort(Tail(chain), st1, message, node, t, ok)

\* for fn_ in [*self._handlers["all"], *self._handlers[msg_type]]: an
\* exception is logged and the loop goes on with the next function
RECURSIVE RunChain(_, _, _, _, _, _)
RunChain(chain, st, message, node, t, ok) ==
    IF chain = <<>> THEN st
    ELSE RunChain(Tail(chain), Call(Head(chain), st, message, node, t, ok),
                  message, node, t, ok)

\* one pass of the receive loop after recvfrom has returned msg_raw from
\* (node_ip, node_port); T and B are the table and the blocklist, user the
\* handlers registered so far.  outcome "raised" is an exception that
\* nothing in _process_messages catches.
Outcome(what, msg_type, st) ==
    [outcome |-> what, type |-> msg_type, nodes |-> st.nodes,
     blocked |-> st.blocked, out |-> st.out, counted |-> st.counted,
     ran |-> st.ran]

\* the pass with the blocklist looked at after the sender id is extracted
process_message_late(T, B, user, msg_raw, node_ip, node_port, t, ok) ==
    LET st0 == [nodes |-> T, blocked |-> B, out |-> <<>>, counted |-> 0,
                ran |-> <<>>]
        msg_type == get_message_type(msg_raw)
        got == get_node_id(msg_raw)
        node == Node(got.id, node_ip, node_port)
    IN  IF msg_raw.type = "undecodable" THEN Outcome("undecodable", "", st0)
        ELSE IF msg_type = "raise" THEN Outcome("raised", "", st0)
        ELSE IF got.tag = "raise" THEN Outcome("raised", msg_type, st0)
        ELSE IF BlockedContains(B, node_ip, t) THEN Outcome("blocked", "", st0)
        ELSE IF got.tag = "none" \/ got.id = <<>>
        THEN Outcome("no_id", msg_type, st0)
        ELSE IF ~is_valid_node(node, BaseId)
        THEN Outcome("invalid", msg_type,
                     [st0 EXCEPT !.blocked = BlockedSet(@, node.ip, t)])
        ELSE Outcome("dispatched", msg_type,
                     RunChain(Chain(user, msg_type), st0, msg_raw, node, t,
                              ok))

process_message(T, B, user, msg_raw, node_ip, node_port, t, ok) ==
    LET st0 == [nodes |-> T, blocked |-> B, out |-> <<>>, counted |-> 0,
                ran |-> <<>>]
        msg_type == get_message_type(msg_raw)
        got == get_node_id(msg_raw)
        node == Node(got.id, node_ip, node_port)
    IN  IF BlockedContains(B, node_ip, t) THEN Outcome("blocked", "", st0)
        ELSE IF msg_raw.type = "undecodable" THEN Outcome("undecodable", "", st0)
        ELSE IF msg_type = "raise" THEN Outcome("raised", "", st0)
        ELSE IF got.tag = "raise" THEN Outcome("raised", msg_type, st0)
        ELSE IF got.tag = "none" \/ got.id = <<>>
        THEN Outcome("no_id", msg_type, st0)
        ELSE IF ~is_valid_node(node, BaseId)
        THEN Outcome("invalid", msg_type,
                     [st0 EXCEPT !.blocked = BlockedSet(@, node.ip, t)])
        ELSE Outcome("dispatched", msg_type,
                     RunChain(Chain(user, msg_type), st0, msg_raw, node, t,
                              ok))

----------------------------------------------------------------------------
(* State *)

VARIABLES
    nodes,          \* RoutingTable._nodes, in insertion order
    now,            \* the clock, in seconds
    ops,            \* how many operations have been applied from outside
    blocked,        \* DHTNode._blocked_ips: entries [ip, expires], oldest first
    stop_requested, \* DHTNode._stop_requested (the Event is set)
    pm,             \* where the thread running _process_messages is
    mrt,            \* where the thread running _maintain_routing_table is
    round,          \* the bootstrap round ("for _ in range(10)")
    wake,           \* when the maintenance thread's current wait times out
    messages_in,    \* counters["messages_in"].value
    messages_out,   \* counters["messages_out"].value
    handlers,       \* the functions add_message_handler has appended to "all"
    steps,          \* how many steps the maintenance thread has taken
    held,           \* a list a get_* call has returned and its caller still
                    \* holds: the objects in it, and what it showed on return
    lock,           \* DHTNode._lock: the thread that holds it, or "free"
    sending,        \* for each thread that calls send_message: where it is
                    \* in the call, and what its calls have done so far
    stats,          \* the thread that calls utils.log_stats: where it is in
                    \* the call, the values it read, the totals it logged,
                    \* and how many increments the counters have had
    last            \* history: the last operation, its inputs, the state
                    \* before it and what it returned or sent

rtVars == <<nodes, now, ops>>

nodeVars == <<blocked, stop_requested, pm, mrt, round, wake, messages_in,
              messages_out, handlers, steps>>

sendVars == <<lock, sending, stats>>

vars == <<nodes, now, ops, blocked, stop_requested, pm, mrt, round, wake,
          messages_in, messages_out, handlers, steps, held, lock, sending,
          stats, last>>

NoNode == Node(<<>>, "", 0)

\* the threads that call send_message: the receive loop (from its handlers),
\* the maintenance loop, and a thread of the program that uses the node
Senders == {"pm", "mrt", "ext"}

\* no thread is in send_message, and none has called it
NoSending ==
    [t \in Senders |-> [pc |-> "out", msg |-> "", calls |-> 0, handed |-> 0,
                        took |-> 0, returned |-> 0, raised |-> 0]]

\* log_stats is not running, and nothing has been counted
NoStats == [pc |-> "out", read_in |-> 0, read_out |-> 0, reported |-> 0,
            increments |-> 0, calls |-> 0]

\* no list held
NoneHeld == [list |-> <<>>, seen |-> <<>>]

\* the list a get_* call returns to a caller that keeps it.  list(...) and
\* sorted(...) make a new list of the objects the dict holds (live: the
\* object is the one the table has under its id); get_peers makes a new list
\* of Peer objects, which nothing ever assigns to.
Hold(result, live) ==
    [list |-> [i \in 1..Len(result) |-> [obj |-> result[i], live |-> live]],
     seen |-> result]

\* save_node assigns to the communicated of the StoredNode it finds
InPlace(T, node, communicated) ==
    node.id # BaseId /\ Has(T, node.id) /\ communicated # None

\* save_node puts a new StoredNode in the place of the one it finds
Replaced(T, node, communicated) ==
    /\ node.id # BaseId
    /\ Has(T, node.id)
    /\ communicated = None
    /\ \/ calculate_distance(BaseId, node.id) <= NearDistance
       \/ Len(T) < SmallTable

\* the held list after an operation on the table T has become Tnew: the
\* objects under the ids of touched were assigned to in place, those under
\* the ids of gone are in the table no longer
Aliased(H, Tnew, touched, gone) ==
    [H EXCEPT !.list =
        [i \in 1..Len(H.list) |->
            LET e == H.list[i]
            IN  IF ~e.live THEN e
                ELSE IF e.obj.id \in gone THEN [e EXCEPT !.live = FALSE]
                ELSE IF e.obj.id \in touched /\ Has(Tnew, e.obj.id)
                THEN [e EXCEPT !.obj = Entry(Tnew, e.obj.id)]
                ELSE e]]

NoPeer == Peer(<<>>, "", 0)

NoOp == [op |-> "none", node |-> NoNode, comm |-> None, peer |-> NoPeer,
         key |-> <<>>, at |-> 0, pre |-> <<>>, result |-> <<>>,
         dg |-> 0, type |-> "", ran |-> <<>>, out |-> <<>>, counted |-> 0,
         preBlocked |-> <<>>, outcome |-> ""]

----------------------------------------------------------------------------
(* Inputs of the routing-table operations *)

\* ids at distance 40 from the base id
Far(c) == MkId(0, c)

\* distance 36: admitted whatever the size of the table
Near36 == MkId(4, 1)

\* distance 37: admitted only into a table of fewer than 7
Near37 == MkId(3, 1)

InfoHash1 == MkId(0, 11)

InfoHash2 == MkId(4, 12)

\* the nodes the initial tables are populated with, in this order
SeedNodes == [c \in 1..SmallTable |-> Node(Far(c), "10.0.0.1", 6881)]

\* save_node is given: a seeded id at its stored address and at another one,
\* an unseeded far id, a near id on each side of the distance limit, the base id
RTNodes ==
    {Node(Far(1), "10.0.0.1", 6881), Node(Far(1), "10.0.0.2", 6882),
     Node(Far(8), "10.0.0.1", 6881), Node(Near36, "10.0.0.1", 6881),
     Node(Near37, "10.0.0.1", 6881), Node(BaseId, "10.0.0.1", 6881)}

RTPeers == {Peer(InfoHash1, "10.0.0.9", 1), Peer(InfoHash2, "10.0.0.9", 1)}

RTNodeIds == {Far(1), Far(8)}

RTTargets == {BaseId, Far(1), Near36}

\* sizes of the initial tables: empty, one below the small-table limit, at it
InitSizes == {0, SmallTable - 1, SmallTable}

RTTickSteps == {UnresponsiveAfter, UnresponsiveAfter + 1}

\* the table after save_node of the first k seed nodes, at time 0
RECURSIVE Populate(_)
Populate(k) ==
    IF k = 0 THEN <<>> ELSE save_node(Populate(k - 1), SeedNodes[k], None, 0)

----------------------------------------------------------------------------
(* The routing table driven through its public operations *)

InitRT ==
    /\ nodes \in {Populate(k) : k \in InitSizes}
    /\ now = 0
    /\ ops = 0
    /\ last = NoOp
    /\ blocked = <<>>
    /\ stop_requested = FALSE
    /\ pm = "not started"
    /\ mrt = "not started"
    /\ round = 0
    /\ wake = 0
    /\ messages_in = 0
    /\ messages_out = 0
    /\ handlers = <<>>
    /\ steps = 0
    /\ held = NoneHeld
    /\ lock = "free"
    /\ sending = NoSending
    /\ stats = NoStats

RT_save_node(node, communicated) ==
    /\ ops < MaxOps
    /\ nodes' = save_node(nodes, node, communicated, now)
    /\ last' = [NoOp EXCEPT !.op = "save_node", !.node = node,
                            !.comm = communicated, !.at = now, !.pre = nodes]
    /\ UNCHANGED sendVars
    /\ held' = Aliased(held, nodes',
                       IF InPlace(nodes, node, communicated)
                       THEN {node.id} ELSE {},
                       IF Replaced(nodes, node, communicated)
                       THEN {node.id} ELSE {})
    /\ ops' = ops + 1
    /\ UNCHANGED <<now, nodeVars>>

RT_save_peer(peer, node_id) ==
    /\ ops < MaxOps
    /\ nodes' = save_peer(nodes, peer, node_id)
    /\ last' = [NoOp EXCEPT !.op = "save_peer", !.peer = peer, !.key = node_id,
                            !.at = now, !.pre = nodes]
    /\ UNCHANGED sendVars
    /\ held' = Aliased(held, nodes', {node_id}, {})
    /\ ops' = ops + 1
    /\ UNCHANGED <<now, nodeVars>>

RT_delete_unresponsive_nodes ==
    /\ ops < MaxOps
    /\ nodes' = delete_unresponsive_nodes(nodes, now)
    /\ last' = [NoOp EXCEPT !.op = "delete_unresponsive_nodes", !.at = now,
                            !.pre = nodes]
    /\ UNCHANGED sendVars
    /\ held' = Aliased(held, nodes', {}, Ids(nodes) \ Ids(nodes'))
    /\ ops' = ops + 1
    /\ UNCHANGED <<now, nodeVars>>

RT_get_closest_nodes(node_id) ==
    /\ ops < MaxOps
    /\ last' = [NoOp EXCEPT !.op = "get_closest_nodes", !.key = node_id,
                            !.at = now, !.pre = nodes,
                            !.result = get_closest_nodes(nodes, node_id)]
    /\ ops' = ops + 1
    /\ UNCHANGED <<nodes, now, nodeVars, held, sendVars>>

RT_get_peers(info_hash) ==
    /\ ops < MaxOps
    /\ last' = [NoOp EXCEPT !.op = "get_peers", !.key = info_hash,
                            !.at = now, !.pre = nodes,
                            !.result = get_peers(nodes, info_hash)]
    /\ ops' = ops + 1
    /\ UNCHANGED <<nodes, now, nodeVars, held, sendVars>>

RT_Tick(dt) ==
    /\ now + dt <= MaxNow
    /\ now' = now + dt
    /\ UNCHANGED <<nodes, ops, last, nodeVars, held, sendVars>>

NextRT ==
    \/ \E node \in RTNodes, c \in {None, now} : RT_save_node(node, c)
    \/ \E peer \in RTPeers, id \in RTNodeIds : RT_save_peer(peer, id)
    \/ RT_delete_unresponsive_nodes
    \/ \E id \in RTTargets : RT_get_closest_nodes(id)
    \/ \E h \in {InfoHash1, InfoHash2} : RT_get_peers(h)
    \/ \E dt \in RTTickSteps : RT_Tick(dt)

SpecRT == InitRT /\ [][NextRT]_vars

----------------------------------------------------------------------------
(* The routing table read by a caller that keeps the list it was given     *)
(* while other calls go on                                                  *)

\* the tables read: one node, seven nodes, seven nodes one of which has a
\* peer
InitSN ==
    /\ nodes \in {Populate(1), Populate(SmallTable),
                  save_peer(Populate(SmallTable),
                            Peer(InfoHash1, "10.0.0.9", 1), Far(1))}
    /\ now = 0
    /\ ops = 0
    /\ last = NoOp
    /\ blocked = <<>>
    /\ stop_requested = FALSE
    /\ pm = "not started"
    /\ mrt = "not started"
    /\ round = 0
    /\ wake = 0
    /\ messages_in = 0
    /\ messages_out = 0
    /\ handlers = <<>>
    /\ steps = 0
    /\ held = NoneHeld
    /\ lock = "free"
    /\ sending = NoSending
    /\ stats = NoStats

SN_get_all_nodes ==
    /\ held = NoneHeld
    /\ UNCHANGED sendVars
    /\ held' = Hold(get_all_nodes(nodes), TRUE)
    /\ last' = [NoOp EXCEPT !.op = "get_all_nodes", !.at = now, !.pre = nodes,
                            !.result = get_all_nodes(nodes)]
    /\ UNCHANGED <<nodes, now, ops, nodeVars>>

SN_get_closest_nodes(node_id) ==
    /\ held = NoneHeld
    /\ UNCHANGED sendVars
    /\ held' = Hold(get_closest_nodes(nodes, node_id), TRUE)
    /\ last' = [NoOp EXCEPT !.op = "get_closest_nodes", !.key = node_id,
                            !.at = now, !.pre = nodes,
                            !.result = get_closest_nodes(nodes, node_id)]
    /\ UNCHANGED <<nodes, now, ops, nodeVars>>

SN_get_peers(info_hash) ==
    /\ held = NoneHeld
    /\ UNCHANGED sendVars
    /\ held' = Hold(get_peers(nodes, info_hash), FALSE)
    /\ last' = [NoOp EXCEPT !.op = "get_peers", !.key = info_hash,
                            !.at = now, !.pre = nodes,
                            !.result = get_peers(nodes, info_hash)]
    /\ UNCHANGED <<nodes, now, ops, nodeVars>>

NextSN ==
    \/ SN_get_all_nodes
    \/ \E id \in {BaseId, Far(1)} : SN_get_closest_nodes(id)
    \/ SN_get_peers(InfoHash1)
    \/ \E node \in RTNodes, c \in {None, now} : RT_save_node(node, c)
    \/ \E peer \in RTPeers, id \in RTNodeIds : RT_save_peer(peer, id)
    \/ RT_delete_unresponsive_nodes
    \/ \E dt \in RTTickSteps : RT_Tick(dt)

SpecSN == InitSN /\ [][NextSN]_vars

----------------------------------------------------------------------------
(* send_message called from several threads, statement by statement        *)

\* what sendto, with its argument bencode.encode(message), does in a call
\* of the thread t: it takes the datagram, or raises OSError, or encode
\* raises ValueError.  The ports the node's own threads pass come from
\* recvfrom or from two bytes of compact node info; a caller from outside can
\* pass a port outside 0..65535, for which sendto raises OverflowError
\* before it sends anything.
SendOutcomes(t) ==
    {"sent", "OSError", "ValueError"} \cup
    (IF t = "ext" THEN {"OverflowError"} ELSE {})

\* the messages the callers send
SentMessages == {"ping", "find_node"}

\* "with self._lock:" goes on when no thread holds the lock
Acquirable_any(l) == TRUE

Acquirable(l) == l = "free"

InitSM ==
    /\ nodes = <<>>
    /\ now = 0
    /\ ops = 0
    /\ last = NoOp
    /\ blocked = <<>>
    /\ stop_requested = FALSE
    /\ pm = "running"
    /\ mrt = "maintain"
    /\ round = 0
    /\ wake = 0
    /\ messages_in = 0
    /\ messages_out = 0
    /\ handlers = <<>>
    /\ steps = 0
    /\ held = NoneHeld
    /\ lock = "free"
    /\ sending = NoSending
    /\ stats = NoStats

\* the thread t calls send_message(msg, ...) and comes to the with statement
SM_Call(t, msg) ==
    /\ sending[t].pc = "out"
    /\ sending[t].calls < MaxOps
    /\ sending' = [sending EXCEPT ![t].pc = "with", ![t].msg = msg,
                                  ![t].calls = @ + 1]
    /\ UNCHANGED <<lock, messages_out>>
    /\ UNCHANGED <<nodes, now, ops, last, blocked, stop_requested, pm, mrt,
                   round, wake, messages_in, handlers, steps, held, stats>>

\* with self._lock: the thread takes the lock and enters the try block
SM_Acquire(t) ==
    /\ sending[t].pc = "with"
    /\ Acquirable(lock)
    /\ lock' = t
    /\ sending' = [sending EXCEPT ![t].pc = "sendto"]
    /\ UNCHANGED messages_out
    /\ UNCHANGED <<nodes, now, ops, last, blocked, stop_requested, pm, mrt,
                   round, wake, messages_in, handlers, steps, held, stats>>

\* self._socket.sendto(bencode.encode(message), (node_ip, node_port))
SM_Sendto(t, outcome) ==
    /\ sending[t].pc = "sendto"
    /\ sending' = [sending EXCEPT
                      ![t].pc = IF outcome = "sent" THEN "increment"
                                ELSE IF outcome \in {"OSError", "ValueError"}
                                THEN "except"
                                ELSE "raise",
                      ![t].handed = @ + 1,
                      ![t].took = IF outcome = "sent" THEN @ + 1 ELSE @]
    /\ UNCHANGED <<lock, messages_out>>
    /\ UNCHANGED <<nodes, now, ops, last, blocked, stop_requested, pm, mrt,
                   round, wake, messages_in, handlers, steps, held, stats>>

\* self.counters["messages_out"].increment(), the end of the with block,
\* and the return to the caller
SM_Increment(t) ==
    /\ sending[t].pc = "increment"
    /\ messages_out' = messages_out + 1
    /\ lock' = "free"
    /\ sending' = [sending EXCEPT ![t].pc = "out", ![t].returned = @ + 1]
    /\ UNCHANGED <<nodes, now, ops, last, blocked, stop_requested, pm, mrt,
                   round, wake, messages_in, handlers, steps, held, stats>>

\* except (OSError, ValueError): logging.error(...), the end of the with
\* block, and the return to the caller
SM_Except(t) ==
    /\ sending[t].pc = "except"
    /\ lock' = "free"
    /\ sending' = [sending EXCEPT ![t].pc = "out", ![t].returned = @ + 1]
    /\ UNCHANGED messages_out
    /\ UNCHANGED <<nodes, now, ops, last, blocked, stop_requested, pm, mrt,
                   round, wake, messages_in, handlers, steps, held, stats>>

\* an exception the except clause does not name leaves the with block,
\* which releases the lock, and send_message
SM_Raise(t) ==
    /\ sending[t].pc = "raise"
    /\ lock' = "free"
    /\ sending' = [sending EXCEPT ![t].pc = "out", ![t].raised = @ + 1]
    /\ UNCHANGED messages_out
    /\ UNCHANGED <<nodes, now, ops, last, blocked, stop_requested, pm, mrt,
                   round, wake, messages_in, handlers, steps, held, stats>>

NextSM ==
    \/ \E t \in Senders, msg \in SentMessages : SM_Call(t, msg)
    \/ \E t \in Senders : SM_Acquire(t)
    \/ \E t \in Senders : \E outcome \in SendOutcomes(t) : SM_Sendto(t, outcome)
    \/ \E t \in Senders : SM_Increment(t)
    \/ \E t \in Senders : SM_Except(t)
    \/ \E t \in Senders : SM_Raise(t)

\* a thread that holds the lock goes on running
SpecSM ==
    /\ InitSM
    /\ [][NextSM]_vars
    /\ \A t \in Senders :
           /\ WF_vars(\E outcome \in SendOutcomes(t) : SM_Sendto(t, outcome))
           /\ WF_vars(SM_Increment(t))
           /\ WF_vars(SM_Except(t))
           /\ WF_vars(SM_Raise(t))

----------------------------------------------------------------------------
(* utils.log_stats called for the node while its threads count messages,   *)
(* statement by statement                                                   *)

InitLS == InitSM

\* the receive loop: recvfrom has returned a datagram, and
\* self.counters["messages_in"].increment()
LS_Received ==
    /\ stats.increments < MaxSteps
    /\ messages_in' = messages_in + 1
    /\ stats' = [stats EXCEPT !.increments = @ + 1]
    /\ UNCHANGED <<nodes, now, ops, last, blocked, stop_requested, pm, mrt,
                   round, wake, messages_out, handlers, steps, held, lock,
                   sending>>

\* send_message: sendto has taken a datagram, and
\* self.counters["messages_out"].increment()
LS_Sent ==
    /\ stats.increments < MaxSteps
    /\ messages_out' = messages_out + 1
    /\ stats' = [stats EXCEPT !.increments = @ + 1]
    /\ UNCHANGED <<nodes, now, ops, last, blocked, stop_requested, pm, mrt,
                   round, wake, messages_in, handlers, steps, held, lock,
                   sending>>

\* log_stats is called and evaluates
\* sum(node.counters["messages_in"].value for node in nodes)
LS_ReadIn ==
    /\ stats.pc = "out"
    /\ stats.calls < MaxOps
    /\ stats' = [stats EXCEPT !.pc = "read_out", !.read_in = messages_in,
                              !.calls = @ + 1]
    /\ UNCHANGED <<nodes, now, ops, last, nodeVars, held, lock, sending>>

\* sum(node.counters["messages_out"].value for node in nodes), and
\* logging.info of the two totals
LS_ReadOut ==
    /\ stats.pc = "read_out"
    /\ stats' = [stats EXCEPT !.pc = "reset_in", !.read_out = messages_out,
                              !.reported = @ + stats.read_in + messages_out]
    /\ UNCHANGED <<nodes, now, ops, last, nodeVars, held, lock, sending>>

\* counter.reset() of the first of node.counters.values(), messages_in
LS_ResetIn ==
    /\ stats.pc = "reset_in"
    /\ messages_in' = 0
    /\ stats' = [stats EXCEPT !.pc = "reset_out"]
    /\ UNCHANGED <<nodes, now, ops, last, blocked, stop_requested, pm, mrt,
                   round, wake, messages_out, handlers, steps, held, lock,
                   sending>>

\* counter.reset() of the second, messages_out, and the return
LS_ResetOut ==
    /\ stats.pc = "reset_out"
    /\ messages_out' = 0
    /\ stats' = [stats EXCEPT !.pc = "out"]
    /\ UNCHANGED <<nodes, now, ops, last, blocked, stop_requested, pm, mrt,
                   round, wake, messages_in, handlers, steps, held, lock,
                   sending>>

NextLS ==
    \/ LS_Received
    \/ LS_Sent
    \/ LS_ReadIn
    \/ LS_ReadOut
    \/ LS_ResetIn
    \/ LS_ResetOut

SpecLS == InitLS /\ [][NextLS]_vars

----------------------------------------------------------------------------
(* Inputs of the node: datagrams as recvfrom returns them *)

\* the node _maintain_routing_table seeds an empty table with:
\* 32f54e697351ff4aec29cdbaabf2fbe3467cc267 at router.bittorrent.com
BootstrapNode ==
    Node(<<3, 2, 15, 5, 4, 14, 6, 9, 7, 3, 5, 1, 15, 15, 4, 10, 14, 12, 2, 9,
           12, 13, 11, 10, 10, 11, 15, 2, 15, 11, 14, 3, 4, 6, 7, 12, 12, 2,
           6, 7>>, "67.215.246.10", 6881)

\* distance 30: the nearest id is_valid_node lets through
Near30 == MkId(10, 1)

\* distance 29: too near to be valid
Near29 == MkId(11, 1)

\* 34 hex digits: an id of 17 bytes
ShortId == [i \in 1..34 |-> 11]

Query(q, t, args) == Message("q", q, t, Dict(args), Absent)

\* the value of the key nodes of a find_node response: whole 26-byte
\* records and the number of bytes left over
CompactNodes ==
    [records |-> <<[id |-> Near36, ip |-> "10.0.0.3", port |-> 6881],
                   [id |-> Near29, ip |-> "10.0.0.4", port |-> 6881],
                   [id |-> BaseId, ip |-> "10.0.0.5", port |-> 6881]>>,
     partial |-> 3]

Datagrams ==
    << \* 1: bytes bencode.decode raises ValueError for
       [payload |-> Undecodable, ip |-> "10.0.0.9", port |-> 6881],
       \* 2: a bencoded integer
       [payload |-> IntVal, ip |-> "10.0.0.9", port |-> 6881],
       \* 3: a query whose a has no id
       [payload |-> Query("ping", "aa", <<>>), ip |-> "10.0.0.9",
        port |-> 6881],
       \* 4: a response whose r has no id
       [payload |-> Message("r", "", "aa", Absent, Dict(<<>>)),
        ip |-> "10.0.0.9", port |-> 6881],
       \* 5: a response whose r is not a mapping
       [payload |-> Message("r", "", "aa", Absent, IntVal),
        ip |-> "10.0.0.9", port |-> 6881],
       \* 6: a query whose a is not a mapping
       [payload |-> Message("q", "ping", "aa", IntVal, Absent),
        ip |-> "10.0.0.9", port |-> 6881],
       \* 7: an error message, with neither a nor r
       [payload |-> Message("e", "", "aa", Absent, Absent),
        ip |-> "10.0.0.9", port |-> 6881],
       \* 8: a ping whose id is the empty byte string
       [payload |-> Query("ping", "aa", [id |-> Bytes(<<>>)]),
        ip |-> "10.0.0.9", port |-> 6881],
       \* 9: a ping without t: _on_ping_request raises
       [payload |-> Query("ping", "", [id |-> Bytes(Far(8))]),
        ip |-> "10.0.0.9", port |-> 6881],
       \* 10: a well-formed ping
       [payload |-> Query("ping", "aa", [id |-> Bytes(Far(8))]),
        ip |-> "10.0.0.9", port |-> 6881],
       \* 11: a ping from an id at distance 29
       [payload |-> Query("ping", "aa", [id |-> Bytes(Near29)]),
        ip |-> "10.0.0.8", port |-> 6881],
       \* 12: a ping from an id at distance 30
       [payload |-> Query("ping", "aa", [id |-> Bytes(Near30)]),
        ip |-> "10.0.0.8", port |-> 6881],
       \* 13: a ping from the node's own id
       [payload |-> Query("ping", "aa", [id |-> Bytes(BaseId)]),
        ip |-> "10.0.0.7", port |-> 6881],
       \* 14: a ping from an id of 17 bytes
       [payload |-> Query("ping", "aa", [id |-> Bytes(ShortId)]),
        ip |-> "10.0.0.7", port |-> 6881],
       \* 15: a ping from 0.0.0.0
       [payload |-> Query("ping", "aa", [id |-> Bytes(Far(8))]),
        ip |-> "0.0.0.0", port |-> 6881],
       \* 16: a ping from port 0
       [payload |-> Query("ping", "aa", [id |-> Bytes(Far(8))]),
        ip |-> "10.0.0.6", port |-> 0],
       \* 17: find_node
       [payload |-> Query("find_node", "aa",
                          [id |-> Bytes(Far(8)), target |-> BaseId]),
        ip |-> "10.0.0.9", port |-> 6881],
       \* 18: get_peers
       [payload |-> Query("get_peers", "aa",
                          [id |-> Bytes(Far(8)), info_hash |-> InfoHash1]),
        ip |-> "10.0.0.9", port |-> 6881],
       \* 19: announce_peer with implied_port
       [payload |-> Query("announce_peer", "aa",
                          [id |-> Bytes(Far(8)), info_hash |-> InfoHash1,
                           implied_port |-> 1, port |-> 1]),
        ip |-> "10.0.0.9", port |-> 6881],
       \* 20: a find_node response that lists, among others, a node too
       \* near at the address it comes from
       [payload |-> Message("r", "", "aa", Absent,
                            Dict([id |-> Bytes(Far(8)),
                                  nodes |-> CompactNodes])),
        ip |-> "10.0.0.4", port |-> 6881],
       \* 21: y = r with r not a mapping, the id in a
       [payload |-> Message("r", "", "aa", Dict([id |-> Bytes(Near29)]),
                            IntVal),
        ip |-> "10.0.0.5", port |-> 6881],
       \* 22: vote
       [payload |-> Query("vote", "aa", [id |-> Bytes(Far(8))]),
        ip |-> "10.0.0.9", port |-> 6881],
       \* 23: sample_infohashes
       [payload |-> Query("sample_infohashes", "aa", [id |-> Bytes(Far(8))]),
        ip |-> "10.0.0.9", port |-> 6881],
       \* 24: a query of no known kind
       [payload |-> Query("foo", "aa", [id |-> Bytes(Far(8))]),
        ip |-> "10.0.0.9", port |-> 6881],
       \* 25: a ping response
       [payload |-> Message("r", "", "aa", Absent,
                            Dict([id |-> Bytes(Far(8))])),
        ip |-> "10.0.0.9", port |-> 6881],
       \* 26: a get_peers response
       [payload |-> Message("r", "", "aa", Absent,
                            Dict([id |-> Bytes(Far(8)), values |-> <<>>])),
        ip |-> "10.0.0.9", port |-> 6881],
       \* 27: an error message that carries an id in r
       [payload |-> Message("e", "", "aa", Absent,
                            Dict([id |-> Bytes(Far(8))])),
        ip |-> "10.0.0.9", port |-> 6881],
       \* 28: a message whose y is none of q, r, e
       [payload |-> Message("x", "ping", "aa", Dict([id |-> Bytes(Far(8))]),
                            Absent),
        ip |-> "10.0.0.9", port |-> 6881],
       \* 29: find_node without target
       [payload |-> Query("find_node", "aa", [id |-> Bytes(Far(8))]),
        ip |-> "10.0.0.9", port |-> 6881],
       \* 30: get_peers without info_hash
       [payload |-> Query("get_peers", "aa", [id |-> Bytes(Far(8))]),
        ip |-> "10.0.0.9", port |-> 6881],
       \* 31: announce_peer with port and no implied_port
       [payload |-> Query("announce_peer", "aa",
                          [id |-> Bytes(Far(8)), info_hash |-> InfoHash1,
                           port |-> 7000]),
        ip |-> "10.0.0.9", port |-> 6881],
       \* 32: announce_peer with implied_port = 0
       [payload |-> Query("announce_peer", "aa",
                          [id |-> Bytes(Far(8)), info_hash |-> InfoHash2,
                           implied_port |-> 0, port |-> 7000]),
        ip |-> "10.0.0.9", port |-> 6881],
       \* 33: announce_peer with neither port nor implied_port
       [payload |-> Query("announce_peer", "aa",
                          [id |-> Bytes(Far(8)), info_hash |-> InfoHash1]),
        ip |-> "10.0.0.9", port |-> 6881],
       \* 34: announce_peer without t
       [payload |-> Query("announce_peer", "",
                          [id |-> Bytes(Far(8)), info_hash |-> InfoHash1,
                           implied_port |-> 1]),
        ip |-> "10.0.0.9", port |-> 6881],
       \* 35: announce_peer from an id near enough to be admitted always
       [payload |-> Query("announce_peer", "bb",
                          [id |-> Bytes(Near36), info_hash |-> InfoHash1,
                           implied_port |-> 1]),
        ip |-> "10.0.0.3", port |-> 6882],
       \* 36: announce_peer with a port that does not fit 16 bits
       [payload |-> Query("announce_peer", "aa",
                          [id |-> Bytes(Far(8)), info_hash |-> InfoHash1,
                           port |-> 70000]),
        ip |-> "10.0.0.9", port |-> 6881],
       \* 37: a find_node response that lists a valid node, a node at
       \* 0.0.0.0 and a node at port 0
       [payload |-> Message("r", "", "aa", Absent,
                            Dict([id |-> Bytes(Far(8)),
                                  nodes |-> [records |-> <<[id |-> Near36,
                                                            ip |-> "10.0.0.3",
                                                            port |-> 6881],
                                                           [id |-> Far(2),
                                                            ip |-> "0.0.0.0",
                                                            port |-> 6881],
                                                           [id |-> Far(3),
                                                            ip |-> "10.0.0.6",
                                                            port |-> 0]>>,
                                             partial |-> 0]])),
        ip |-> "10.0.0.9", port |-> 6881],
       \* 38: announce_peer with implied_port from another id at the address
       \* of datagram 19
       [payload |-> Query("announce_peer", "aa",
                          [id |-> Bytes(Far(9)), info_hash |-> InfoHash1,
                           implied_port |-> 1, port |-> 1]),
        ip |-> "10.0.0.9", port |-> 6881],
       \* 39: a bencoded integer from the address of datagrams 11 and 12
       [payload |-> IntVal, ip |-> "10.0.0.8", port |-> 6881],
       \* 40: undecodable bytes from the same address
       [payload |-> Undecodable, ip |-> "10.0.0.8", port |-> 6881] >>

\* the datagrams the whole node is given
SpecDatagrams == 1..21

\* what the node is called with directly
NodeCalls == {Node(BaseId, "10.0.0.1", 6881), Node(Far(1), "10.0.0.1", 6881)}

UserHandlers == {"user_ok", "user_raises"}

----------------------------------------------------------------------------
(* The node: start, the two threads, stop, add_message_handler, and the     *)
(* routing table called directly                                            *)

Init ==
    /\ nodes = <<>>
    /\ now = 0
    /\ ops = 0
    /\ last = NoOp
    /\ blocked = <<>>
    /\ stop_requested = FALSE
    /\ pm = "not started"
    /\ mrt = "not started"
    /\ round = 0
    /\ wake = 0
    /\ messages_in = 0
    /\ messages_out = 0
    /\ handlers = <<>>
    /\ steps = 0
    /\ held = NoneHeld
    /\ lock = "free"
    /\ sending = NoSending
    /\ stats = NoStats

\* start(): both threads begin
Start ==
    /\ pm = "not started"
    /\ pm' = "loop"
    /\ mrt' = "start"
    /\ UNCHANGED <<nodes, now, ops, blocked, stop_requested, round, wake,
                   messages_in, messages_out, handlers, steps, last,
                   held, sendVars>>

\* stop(): the event is set
Stop ==
    /\ ops < MaxOps
    /\ ~stop_requested
    /\ stop_requested' = TRUE
    /\ ops' = ops + 1
    /\ last' = [NoOp EXCEPT !.op = "stop", !.at = now, !.pre = nodes,
                            !.preBlocked = blocked]
    /\ UNCHANGED <<nodes, now, blocked, pm, mrt, round, wake, messages_in,
                   messages_out, handlers, steps, held, sendVars>>

add_message_handler(fn) ==
    /\ ops < MaxOps
    /\ Len(handlers) < MaxHandlers
    /\ handlers' = Append(handlers, fn)
    /\ ops' = ops + 1
    /\ last' = [NoOp EXCEPT !.op = "add_message_handler", !.at = now,
                            !.pre = nodes, !.preBlocked = blocked]
    /\ UNCHANGED <<nodes, now, blocked, stop_requested, pm, mrt, round, wake,
                   messages_in, messages_out, steps, held, sendVars>>

\* "while not self._stop_requested.is_set()", and the close after the loop
PMLoop ==
    /\ pm = "loop"
    /\ pm' = IF stop_requested THEN "closed" ELSE "recv"
    /\ UNCHANGED <<nodes, now, ops, blocked, stop_requested, mrt, round, wake,
                   messages_in, messages_out, handlers, steps, last,
                   held, sendVars>>

\* recvfrom raises OSError (timed out or not): back to the top of the loop
PMTimeout ==
    /\ pm = "recv"
    /\ pm' = "loop"
    /\ UNCHANGED <<nodes, now, ops, blocked, stop_requested, mrt, round, wake,
                   messages_in, messages_out, handlers, steps, last,
                   held, sendVars>>

\* recvfrom returns datagram dg; the rest of the pass runs on it.  An
\* exception nothing catches ends the thread, the socket left open.
Receive(dg, ok) ==
    /\ pm = "recv"
    /\ ops < MaxOps
    /\ LET d == Datagrams[dg]
           res == process_message(nodes, blocked, handlers, d.payload, d.ip,
                                  d.port, now, ok)
       IN  /\ nodes' = res.nodes
           /\ blocked' = res.blocked
           /\ messages_in' = messages_in + 1
           /\ messages_out' = messages_out + res.counted
           /\ pm' = IF res.outcome = "raised" THEN "crashed" ELSE "loop"
           /\ last' = [NoOp EXCEPT !.op = "receive", !.dg = dg, !.at = now,
                                   !.pre = nodes, !.preBlocked = blocked,
                                   !.outcome = res.outcome, !.type = res.type,
                                   !.ran = res.ran, !.out = res.out,
                                   !.counted = res.counted]
    /\ ops' = ops + 1
    /\ UNCHANGED <<now, stop_requested, mrt, round, wake, handlers, steps,
                   held, sendVars>>

\* how many of the datagrams a loop of send_message calls hands to sendto
\* are counted: all when sendto works (ok), none when it raises OSError
Counted(msgs, ok) == IF ok THEN Len(msgs) ELSE 0

\* the maintenance thread takes MaxSteps steps while the node runs, and
\* after stop() as many as it needs to end
MayStep == steps < MaxSteps \/ stop_requested

Stepped == Min(steps + 1, MaxSteps)

\* "if not self._routing_table.get_all_nodes()": an empty table gets the
\* bootstrap node and the ten rounds, any other goes straight to maintaining
MRTStart ==
    /\ mrt = "start"
    /\ MayStep
    /\ nodes' = IF nodes = <<>> THEN save_node(nodes, BootstrapNode, None, now)
                ELSE nodes
    /\ mrt' = IF nodes = <<>> THEN "boot" ELSE "maintain"
    /\ round' = 0
    /\ steps' = Stepped
    /\ last' = [NoOp EXCEPT !.op = "mrt_start", !.at = now, !.pre = nodes,
                            !.preBlocked = blocked]
    /\ UNCHANGED <<now, ops, blocked, stop_requested, pm, wake, messages_in,
                   messages_out, handlers, held, sendVars>>

FindNodeQuery(n) ==
    [OutMsg EXCEPT !.to = <<n.ip, n.port>>, !.t = "random", !.y = "q",
                   !.q = "find_node", !.id = BaseId, !.target = BaseId]

PingQuery(n) ==
    [OutMsg EXCEPT !.to = <<n.ip, n.port>>, !.t = "random", !.y = "q",
                   !.q = "ping", !.id = BaseId]

\* one pass of "for _ in range(10)" up to the wait: unless stopped, find_node
\* goes to the closest nodes and the thread waits 5 seconds
MRTBootRound(ok) ==
    /\ mrt = "boot"
    /\ MayStep
    /\ LET closest == get_closest_nodes(nodes, BaseId)
           sent == IF stop_requested THEN <<>>
                   ELSE [i \in 1..Len(closest) |-> FindNodeQuery(closest[i])]
       IN  /\ messages_out' = messages_out + Counted(sent, ok)
           /\ last' = [NoOp EXCEPT !.op = "mrt_boot", !.at = now,
                                   !.pre = nodes, !.preBlocked = blocked,
                                   !.out = sent,
                                   !.counted = Counted(sent, ok)]
    /\ IF stop_requested
       THEN /\ round' = round + 1
            /\ mrt' = IF round + 1 = BootstrapRounds THEN "maintain" ELSE "boot"
            /\ wake' = wake
       ELSE /\ round' = round
            /\ mrt' = "boot_wait"
            /\ wake' = now + BootstrapWait
    /\ steps' = Stepped
    /\ UNCHANGED <<nodes, now, ops, blocked, stop_requested, pm, messages_in,
                   handlers, held, sendVars>>

\* wait(5) returns: the event was set or the time is up
MRTBootWake ==
    /\ mrt = "boot_wait"
    /\ MayStep
    /\ stop_requested \/ now >= wake
    /\ round' = round + 1
    /\ mrt' = IF round + 1 = BootstrapRounds THEN "maintain" ELSE "boot"
    /\ steps' = Stepped
    /\ UNCHANGED <<nodes, now, ops, blocked, stop_requested, pm, wake,
                   messages_in, messages_out, handlers, last, held, sendVars>>

\* _ping_questionable_nodes that pings the unresponsive nodes only
ping_unresponsive_nodes(T, t) ==
    LET q == SelectSeq(get_all_nodes(T), LAMBDA n : is_unresponsive(n, t))
    IN  [i \in 1..Len(q) |-> PingQuery(q[i])]

\* _ping_questionable_nodes
ping_questionable_nodes(T, t) ==
    LET q == SelectSeq(get_all_nodes(T), LAMBDA n : is_questionable(n, t))
    IN  [i \in 1..Len(q) |-> PingQuery(q[i])]

\* "while not self._stop_requested.is_set()": the thread ends, or pings the
\* questionable nodes
MRTMaintain(ok) ==
    /\ mrt = "maintain"
    /\ MayStep
    /\ LET sent == IF stop_requested THEN <<>>
                   ELSE ping_questionable_nodes(nodes, now)
       IN  /\ messages_out' = messages_out + Counted(sent, ok)
           /\ last' = [NoOp EXCEPT !.op = "mrt_ping", !.at = now,
                                   !.pre = nodes, !.preBlocked = blocked,
                                   !.out = sent,
                                   !.counted = Counted(sent, ok)]
    /\ mrt' = IF stop_requested THEN "done" ELSE "delete"
    /\ steps' = Stepped
    /\ UNCHANGED <<nodes, now, ops, blocked, stop_requested, pm, round, wake,
                   messages_in, handlers, held, sendVars>>

\* delete_unresponsive_nodes, then wait(300) begins
MRTDelete ==
    /\ mrt = "delete"
    /\ MayStep
    /\ nodes' = delete_unresponsive_nodes(nodes, now)
    /\ wake' = now + MaintainWait
    /\ mrt' = "wait"
    /\ steps' = Stepped
    /\ last' = [NoOp EXCEPT !.op = "mrt_delete", !.at = now, !.pre = nodes,
                            !.preBlocked = blocked]
    /\ UNCHANGED <<now, ops, blocked, stop_requested, pm, round, messages_in,
                   messages_out, handlers, held, sendVars>>

\* wait(300) returns: the event was set or the time is up
MRTWake ==
    /\ mrt = "wait"
    /\ MayStep
    /\ stop_requested \/ now >= wake
    /\ mrt' = "maintain"
    /\ steps' = Stepped
    /\ UNCHANGED <<nodes, now, ops, blocked, stop_requested, pm, round, wake,
                   messages_in, messages_out, handlers, last, held, sendVars>>

\* time passes until the maintenance thread's wait is over
TickToWake ==
    /\ mrt \in {"boot_wait", "wait"}
    /\ now < wake
    /\ wake <= MaxNow
    /\ now' = wake
    /\ UNCHANGED <<nodes, ops, last, nodeVars, held, sendVars>>

Next ==
    \/ Start
    \/ Stop
    \/ \E fn \in UserHandlers : add_message_handler(fn)
    \/ PMLoop
    \/ PMTimeout
    \/ \E dg \in SpecDatagrams, ok \in BOOLEAN : Receive(dg, ok)
    \/ MRTStart
    \/ \E ok \in BOOLEAN : MRTBootRound(ok)
    \/ MRTBootWake
    \/ \E ok \in BOOLEAN : MRTMaintain(ok)
    \/ MRTDelete
    \/ MRTWake
    \/ TickToWake
    \/ \E node \in NodeCalls, c \in {None, now} : RT_save_node(node, c)
    \/ \E peer \in RTPeers, id \in RTNodeIds : RT_save_peer(peer, id)
    \/ RT_delete_unresponsive_nodes

Spec == Init /\ [][Next]_vars

-----------------------------------------------------------------------------
(* The maintenance loop in its steady state: a node started on a table of   *)
(* one node, the maintenance thread followed cycle by cycle until the clock *)
(* stops, pings arriving from two other nodes                               *)

\* when the node is started, the table's one node having been saved at 0
MTStartTimes == {0, 100}

\* pings from two valid senders at addresses of their own, and a find_node
\* response that lists a third node
MTDatagrams == {10, 12, 37}

InitMT ==
    /\ nodes = Populate(1)
    /\ now \in MTStartTimes
    /\ ops = 0
    /\ last = NoOp
    /\ blocked = <<>>
    /\ stop_requested = FALSE
    /\ pm = "not started"
    /\ mrt = "not started"
    /\ round = 0
    /\ wake = 0
    /\ messages_in = 0
    /\ messages_out = 0
    /\ handlers = <<>>
    /\ steps = 0
    /\ held = NoneHeld
    /\ lock = "free"
    /\ sending = NoSending
    /\ stats = NoStats

\* one pass of "while not self._stop_requested.is_set()", from the return of
\* the previous wait(300) to the start of the next: the questionable nodes
\* are pinged, the unresponsive ones deleted
MRTCycle(ok) ==
    /\ mrt = "maintain" \/ (mrt = "wait" /\ now >= wake)
    /\ ~stop_requested
    /\ now + MaintainWait <= MaxNow
    /\ LET sent == ping_questionable_nodes(nodes, now)
       IN  /\ messages_out' = messages_out + Counted(sent, ok)
           /\ last' = [NoOp EXCEPT !.op = "mrt_cycle", !.at = now,
                                   !.pre = nodes, !.preBlocked = blocked,
                                   !.out = sent,
                                   !.counted = Counted(sent, ok)]
    /\ nodes' = delete_unresponsive_nodes(nodes, now)
    /\ wake' = now + MaintainWait
    /\ mrt' = "wait"
    /\ UNCHANGED <<now, ops, blocked, stop_requested, pm, round, messages_in,
                   handlers, steps, held, sendVars>>

NextMT ==
    \/ Start
    \/ PMLoop
    \/ PMTimeout
    \/ \E dg \in MTDatagrams, ok \in BOOLEAN : Receive(dg, ok)
    \/ MRTStart
    \/ \E ok \in BOOLEAN : MRTCycle(ok)
    \/ TickToWake

SpecMT == InitMT /\ [][NextMT]_vars

-----------------------------------------------------------------------------
(* Shutdown: the node from start() to the end of both threads, every thread *)
(* taking its next step in the end                                          *)

\* a datagram that ends the receive thread, a ping, two find_node responses
SDDatagrams == {2, 10, 20, 37}

NextSD ==
    \/ Start
    \/ Stop
    \/ PMLoop
    \/ PMTimeout
    \/ \E dg \in SDDatagrams, ok \in BOOLEAN : Receive(dg, ok)
    \/ MRTStart
    \/ \E ok \in BOOLEAN : MRTBootRound(ok)
    \/ MRTBootWake
    \/ \E ok \in BOOLEAN : MRTMaintain(ok)
    \/ MRTDelete
    \/ MRTWake
    \/ TickToWake

\* recvfrom returns or times out within a second, a running thread is
\* scheduled, and time passes
SpecSD ==
    /\ Init
    /\ [][NextSD]_vars
    /\ WF_vars(PMLoop)
    /\ WF_vars(PMTimeout)
    /\ WF_vars(MRTStart)
    /\ WF_vars(\E ok \in BOOLEAN : MRTBootRound(ok))
    /\ WF_vars(MRTBootWake)
    /\ WF_vars(\E ok \in BOOLEAN : MRTMaintain(ok))
    /\ WF_vars(MRTDelete)
    /\ WF_vars(MRTWake)
    /\ WF_vars(TickToWake)

----------------------------------------------------------------------------
(* The receive loop and its handlers, on an empty table and on a table of  *)
(* seven far nodes saved before start(), with no handler or two handlers   *)
(* added before start()                                                     *)

\* well-formed and ill-formed requests, responses and the other labels
PMDatagrams == {5, 9, 10, 13, 17, 18, 19, 20, 38} \cup 22..36

InitPM ==
    /\ nodes \in {Populate(k) : k \in {0, SmallTable}}
    /\ now = 0
    /\ ops = 0
    /\ last = NoOp
    /\ blocked = <<>>
    /\ stop_requested = FALSE
    /\ pm = "not started"
    /\ mrt = "not started"
    /\ round = 0
    /\ wake = 0
    /\ messages_in = 0
    /\ messages_out = 0
    /\ handlers \in {<<>>, <<"user_raises", "user_ok">>}
    /\ steps = 0
    /\ held = NoneHeld
    /\ lock = "free"
    /\ sending = NoSending
    /\ stats = NoStats

NextPM ==
    \/ Start
    \/ \E fn \in UserHandlers : add_message_handler(fn)
    \/ PMLoop
    \/ PMTimeout
    \/ \E dg \in PMDatagrams, ok \in BOOLEAN : Receive(dg, ok)
    \/ \E peer \in RTPeers, id \in RTNodeIds : RT_save_peer(peer, id)

SpecPM == InitPM /\ [][NextPM]_vars

----------------------------------------------------------------------------
(* The receive loop with a blocklist that has filled up: a thousand        *)
(* invalid senders have been turned away at time 0, or one fewer            *)

TrackedIp == "10.0.0.8"

\* the i-th of the senders that filled the blocklist
FillerIp(i) == "10.1." \o ToString(i \div 250) \o "." \o ToString(i % 250)

Fillers(k) ==
    [i \in 1..k |-> [ip |-> FillerIp(i), expires |-> BlocklistTTL]]

\* the blocklist after TrackedIp and then BlocklistMaxSize - 1 others
FullWithTracked ==
    <<[ip |-> TrackedIp, expires |-> BlocklistTTL]>>
        \o Fillers(BlocklistMaxSize - 1)

\* the instants the clock is looked at
BLTimes == {1, BlocklistTTL - 1, BlocklistTTL, BlocklistTTL + 1}

\* pings from TrackedIp (too near, then just far enough), a ping from
\* another invalid sender, the find_node response, a well-formed ping, and
\* from TrackedIp a bencoded integer and undecodable bytes
BLDatagrams == {10, 11, 12, 14, 20, 39, 40}

InitBL ==
    /\ nodes = <<>>
    /\ now = 0
    /\ ops = 0
    /\ last = NoOp
    /\ blocked \in {<<>>, Fillers(BlocklistMaxSize - 1), FullWithTracked}
    /\ stop_requested = FALSE
    /\ pm = "not started"
    /\ mrt = "not started"
    /\ round = 0
    /\ wake = 0
    /\ messages_in = Len(blocked)
    /\ messages_out = 0
    /\ handlers = <<>>
    /\ steps = 0
    /\ held = NoneHeld
    /\ lock = "free"
    /\ sending = NoSending
    /\ stats = NoStats

BLTick(t) ==
    /\ t > now
    /\ now' = t
    /\ UNCHANGED <<nodes, ops, last, nodeVars, held, sendVars>>

NextBL ==
    \/ Start
    \/ PMLoop
    \/ PMTimeout
    \/ \E dg \in BLDatagrams : Receive(dg, TRUE)
    \/ \E t \in BLTimes : BLTick(t)

SpecBL == InitBL /\ [][NextBL]_vars

----------------------------------------------------------------------------
(* Properties of the routing table, checked under SpecRT *)

\* the reference time of a stored node: communicated if present, else added
RefTime(n) == IF n.communicated = None THEN n.added ELSE n.communicated

\* C2: save_node of a candidate that is neither the base id nor in the table
\* admits it if and only if its distance to the base id is at most 36 or the
\* table held fewer than 7 entries; a candidate not admitted leaves the
\* table as it was.
C2_AdmissionRule ==
    (last.op = "save_node" /\ last.node.id # BaseId
        /\ ~Has(last.pre, last.node.id))
    => /\ Has(nodes, last.node.id)
            <=> (calculate_distance(BaseId, last.node.id) <= 36
                 \/ Len(last.pre) < 7)
       /\ ~Has(nodes, last.node.id) => nodes = last.pre

\* a candidate one digit too far is turned away from a table of exactly 7
C2_Witness ==
    /\ last.op = "save_node"
    /\ last.node.id = Near37
    /\ Len(last.pre) = 7
    /\ ~Has(last.pre, Near37)
    /\ ~Has(nodes, Near37)

\* C3: save_node with no communicated timestamp, for an id that is in the
\* table, leaves the stored entry as it was.
C3_IdempotentAdmission ==
    (last.op = "save_node" /\ last.comm = None /\ Has(last.pre, last.node.id))
    => Entry(nodes, last.node.id) = Entry(last.pre, last.node.id)

\* C4: save_node with a communicated timestamp c, for an id that is in the
\* table, sets the entry's communicated to c and changes nothing else: not
\* the entry's other fields, not the other entries, not the set of ids.
C4_FreshnessRefresh ==
    (last.op = "save_node" /\ last.comm # None /\ Has(last.pre, last.node.id))
    => /\ Len(nodes) = Len(last.pre)
       /\ \A i \in 1..Len(last.pre) :
            IF last.pre[i].id = last.node.id
            THEN /\ nodes[i].communicated = last.comm
                 /\ nodes[i].id = last.pre[i].id
                 /\ nodes[i].ip = last.pre[i].ip
                 /\ nodes[i].port = last.pre[i].port
                 /\ nodes[i].added = last.pre[i].added
                 /\ nodes[i].distance = last.pre[i].distance
                 /\ nodes[i].peers = last.pre[i].peers
            ELSE nodes[i] = last.pre[i]

\* a stored node refreshed by a node that carries another ip and port
C4_Witness ==
    /\ last.op = "save_node"
    /\ last.comm # None
    /\ Has(last.pre, last.node.id)
    /\ Entry(last.pre, last.node.id).ip # last.node.ip
    /\ Entry(last.pre, last.node.id).port # last.node.port
    /\ Entry(last.pre, last.node.id).communicated # last.comm
    /\ Entry(nodes, last.node.id).communicated = last.comm

\* C6: get_closest_nodes(x) returns min(7, size) stored nodes, each once, in
\* non-decreasing order of distance to x; no stored node left out is
\* strictly closer to x than a returned one; the table is unchanged.
C6_ClosestNodes ==
    last.op = "get_closest_nodes"
    => LET r == last.result
           x == last.key
       IN  /\ Len(r) = IF Len(last.pre) < 7 THEN Len(last.pre) ELSE 7
           /\ Range(r) \subseteq Range(last.pre)
           /\ \A i, j \in 1..Len(r) : i # j => r[i].id # r[j].id
           /\ \A i, j \in 1..Len(r) :
                i < j => calculate_distance(x, r[i].id)
                            <= calculate_distance(x, r[j].id)
           /\ \A n \in Range(last.pre) \ Range(r) : \A i \in 1..Len(r) :
                calculate_distance(x, n.id) >= calculate_distance(x, r[i].id)
           /\ nodes = last.pre

\* more than 7 stored, and the 7 closest are not the 7 stored first
C6_Witness ==
    /\ last.op = "get_closest_nodes"
    /\ Len(last.pre) > 7
    /\ Len(last.result) = 7
    /\ last.result # SubSeq(last.pre, 1, 7)

\* what save_peer does for a node_id that is in the table: the peer joins
\* that node's set and nothing else changes, a second call leaves the set as
\* the first left it, and get_peers of the peer's info_hash returns the peer
SavePeerPresent ==
    /\ Entry(nodes, last.key).peers
         = Entry(last.pre, last.key).peers \cup {last.peer}
    /\ last.peer \in Entry(last.pre, last.key).peers => nodes = last.pre
    /\ Len(nodes) = Len(last.pre)
    /\ \A i \in 1..Len(last.pre) :
         last.pre[i].id # last.key => nodes[i] = last.pre[i]
    /\ save_peer(nodes, last.peer, last.key) = nodes
    /\ last.peer \in Range(get_peers(nodes, last.peer.info_hash))

\* C7 as claimed: save_peer has set semantics for a node_id in the table; for
\* a node_id not in the table it changes nothing and the peer is not
\* returned by get_peers.
C7_SavePeerAsClaimed ==
    last.op = "save_peer"
    => IF Has(last.pre, last.key)
       THEN SavePeerPresent
       ELSE /\ nodes = last.pre
            /\ last.peer \notin Range(get_peers(nodes, last.peer.info_hash))

\* C7, amended: save_peer has set semantics for a node_id in the table; for
\* a node_id not in the table it changes nothing, and get_peers returns the
\* peer only if a stored node already held it before the call.
C7_SavePeer ==
    last.op = "save_peer"
    => IF Has(last.pre, last.key)
       THEN SavePeerPresent
       ELSE /\ nodes = last.pre
            /\ last.peer \in Range(get_peers(nodes, last.peer.info_hash))
                 => \E i \in 1..Len(last.pre) : last.peer \in last.pre[i].peers

\* the second of two successive save_peer calls with the same arguments
C7_Witness ==
    /\ last.op = "save_peer"
    /\ Has(last.pre, last.key)
    /\ last.peer \in Entry(last.pre, last.key).peers
    /\ Entry(nodes, last.key).peers = {last.peer}

\* C8: delete_unresponsive_nodes removes exactly the stored nodes whose
\* reference time is more than 15 minutes (900 s) before the moment of the
\* call and keeps the others, unchanged and in their order.
C8_DeleteUnresponsive ==
    last.op = "delete_unresponsive_nodes"
    => /\ Range(nodes) \subseteq Range(last.pre)
       /\ \A n \in Range(last.pre) :
            n \in Range(nodes) <=> ~(last.at - RefTime(n) > 900)
       /\ \A i, j \in 1..Len(nodes) :
            i < j => IndexOf(last.pre, nodes[i].id) < IndexOf(last.pre, nodes[j].id)

\* one node exactly 15 minutes old is kept while older ones are removed, and
\* a node with no communicated timestamp is among those kept
C8_Witness ==
    /\ last.op = "delete_unresponsive_nodes"
    /\ \E n \in Range(last.pre) : n \notin Range(nodes)
    /\ \E n \in Range(nodes) : last.at - RefTime(n) = 900
    /\ \E n \in Range(nodes) : n.communicated = None

\* C23: every stored node's distance is 40 minus the length of the common
\* prefix of the base id and its id, and the distance stored for an id stays
\* the same for as long as the id is in the table.
C23_DistanceInvariant ==
    /\ [](\A i \in 1..Len(nodes) :
            nodes[i].distance = 40 - CommonPrefixLen(BaseId, nodes[i].id))
    /\ [][\A i \in 1..Len(nodes) :
            Has(nodes', nodes[i].id)
            => Entry(nodes', nodes[i].id).distance = nodes[i].distance]_vars

\* a node at distance 36 saved once more, without communicated: the entry is
\* written anew, with the same distance
C23_Witness ==
    /\ last.op = "save_node"
    /\ last.comm = None
    /\ Has(last.pre, last.node.id)
    /\ Entry(nodes, last.node.id) # Entry(last.pre, last.node.id)
    /\ Entry(last.pre, last.node.id).distance = NearDistance
    /\ Entry(nodes, last.node.id).distance = NearDistance

\* the stored nodes farther than 36 from the base id
FarEntries(T) ==
    {i \in 1..Len(T) : 40 - CommonPrefixLen(BaseId, T[i].id) > NearDistance}

\* C28: the table never holds more than 7 entries at a distance greater than
\* 36 from the base id, whatever calls of save_node, save_peer and
\* delete_unresponsive_nodes are made.
C28_FarNodeCap == Cardinality(FarEntries(nodes)) <= 7

\* a table of 7 far nodes and a near one, an eighth far node just refused
C28_Witness ==
    /\ last.op = "save_node"
    /\ 40 - CommonPrefixLen(BaseId, last.node.id) > NearDistance
    /\ ~Has(nodes, last.node.id)
    /\ Cardinality(FarEntries(nodes)) = 7
    /\ Len(nodes) = 8

----------------------------------------------------------------------------
(* Properties of the node, checked under Spec *)

\* the datagram of the last pass of the receive loop
LastDatagram == Datagrams[last.dg]

\* the pass gets as far as a sender id: the source is not blocked, the
\* payload decodes to a mapping and neither the classifier nor the
\* extraction of the id raises
HasSender(d, B, t) ==
    /\ ~BlockedContains(B, d.ip, t)
    /\ d.payload.type = "dict"
    /\ get_message_type(d.payload) # "raise"
    /\ get_node_id(d.payload).tag = "id"

SenderOf(d) == Node(get_node_id(d.payload).id, d.ip, d.port)

\* invalid as the validator's rule reads: ip 0.0.0.0, port outside 1..65535,
\* id not of 40 hex characters, or an id other than the base id nearer than 30
InvalidSender(n) ==
    \/ n.ip = "0.0.0.0"
    \/ n.port \notin 1..65535
    \/ Len(n.id) # 40
    \/ n.id # BaseId /\ 40 - CommonPrefixLen(n.id, BaseId) < 30

\* C1: no datagram ends the receive loop: whatever the payload, the pass
\* over it ends without an uncaught exception, and the loop is over (closed
\* or dead) only once the stop signal is set.
C1_LoopSurvives ==
    /\ last.op = "receive" => last.outcome # "raised"
    /\ pm \in {"closed", "crashed"} => stop_requested

\* C5: the table never holds an entry with the base id, and save_node of a
\* node with the base id leaves the table as it was.
C5_BaseIdExcluded ==
    /\ BaseId \notin Ids(nodes)
    /\ last.op = "save_node" /\ last.node.id = BaseId => nodes = last.pre

\* save_node of the base id, with a communicated timestamp, on a table that
\* already holds a node
C5_Witness ==
    /\ last.op = "save_node"
    /\ last.node.id = BaseId
    /\ last.comm # None
    /\ last.pre # <<>>
    /\ nodes = last.pre

\* C10 as stated: a decoded datagram from an invalid sender leaves the source
\* ip on the blocklist, runs no handler, leaves the table as it was and sends
\* nothing; one from a valid sender does not put the source ip on the
\* blocklist.
C10_AsClaimed ==
    last.op = "receive" /\ HasSender(LastDatagram, last.preBlocked, last.at)
    => IF InvalidSender(SenderOf(LastDatagram))
       THEN /\ BlockedContains(blocked, LastDatagram.ip, last.at)
            /\ last.ran = <<>>
            /\ nodes = last.pre
            /\ last.out = <<>>
       ELSE ~BlockedContains(blocked, LastDatagram.ip, last.at)

\* the records of a find_node response that name an invalid node at ip
ListsInvalidAt(message, ip) ==
    /\ HasKey(message.r, "nodes")
    /\ \E i \in 1..Len(message.r.d.nodes.records) :
          LET rec == message.r.d.nodes.records[i]
          IN  rec.ip = ip /\ InvalidSender(Node(rec.id, rec.ip, rec.port))

\* C10: a decoded datagram with a non-empty sender id from an invalid sender
\* leaves the source ip on the blocklist, runs no handler, leaves the table
\* as it was and sends nothing.  One with an empty sender id is dropped with
\* no change to the blocklist.  One from a valid sender puts the source ip
\* on the blocklist only as a find_node response that lists an invalid node
\* at that same ip.
C10_InvalidSender ==
    last.op = "receive" /\ HasSender(LastDatagram, last.preBlocked, last.at)
    => IF SenderOf(LastDatagram).id = <<>>
       THEN /\ blocked = last.preBlocked
            /\ last.ran = <<>>
            /\ nodes = last.pre
            /\ last.out = <<>>
       ELSE IF InvalidSender(SenderOf(LastDatagram))
       THEN /\ BlockedContains(blocked, LastDatagram.ip, last.at)
            /\ last.ran = <<>>
            /\ nodes = last.pre
            /\ last.out = <<>>
       ELSE BlockedContains(blocked, LastDatagram.ip, last.at)
            => /\ last.type = "find_node_response"
               /\ ListsInvalidAt(LastDatagram.payload, LastDatagram.ip)

\* a ping from an id at distance 29, with a handler registered and a node in
\* the table: the ip is blocked and nothing else has happened
C10_Witness ==
    /\ last.op = "receive"
    /\ HasSender(LastDatagram, last.preBlocked, last.at)
    /\ calculate_distance(SenderOf(LastDatagram).id, BaseId) = 29
    /\ handlers # <<>>
    /\ last.pre # <<>>
    /\ BlockedContains(blocked, LastDatagram.ip, last.at)
    /\ last.ran = <<>>

----------------------------------------------------------------------------
(* Properties of the blocklist, checked under SpecBL *)

\* a datagram from an ip on the blocklist is turned away untouched
RejectsBlocked ==
    last.op = "receive"
        /\ BlockedContains(last.preBlocked, LastDatagram.ip, last.at)
    => /\ last.outcome = "blocked"
       /\ blocked = last.preBlocked
       /\ nodes = last.pre
       /\ last.ran = <<>>
       /\ last.out = <<>>

\* the positions of the entries that were live before the last operation and
\* are on the blocklist no longer (neither as they were nor set anew)
Dropped ==
    LET kept == Range(blocked)
        fresh == kept \ Range(last.preBlocked)
    IN  {i \in 1..Len(last.preBlocked) :
            LET e == last.preBlocked[i]
            IN  /\ last.at < e.expires
                /\ e \notin kept
                /\ ~\E b \in fresh : b.ip = e.ip /\ b.expires >= e.expires}

\* C9 as stated: an ip on the blocklist is rejected until 24 hours after it
\* was added, however many other ips are put on the blocklist meanwhile.
C9_AsClaimed == RejectsBlocked /\ Dropped = {}

\* C9: an ip on the blocklist is rejected until 24 hours after it was added,
\* unless it is evicted first: the blocklist holds at most 1000 ips, and a
\* new ip put on a full blocklist evicts the one set longest ago.
C9_BlocklistClosure ==
    /\ RejectsBlocked
    /\ Len(blocked) <= 1000
    /\ \A i \in Dropped :
          /\ Len(blocked) = 1000
          /\ \A k \in 1..(i - 1) :
                k \in Dropped \/ ~(last.at < last.preBlocked[k].expires)

\* a datagram from the tracked ip, one second before its 24 hours are over,
\* after 999 other ips have been put on the blocklist: rejected
C9_Witness ==
    /\ last.op = "receive"
    /\ LastDatagram.ip = TrackedIp
    /\ last.outcome = "blocked"
    /\ last.at = 86400 - 1
    /\ Len(last.preBlocked) = 1000

\* C26: a datagram received from an ip that is on the blocklist is dropped
\* before anything is decoded: the table and the blocklist stay as they
\* are, no handler is called, nothing is sent, the receive loop goes on, and
\* only messages_in is incremented.
C26_BlockedNoEffect ==
    [][(pm = "recv" /\ ops' = ops + 1
          /\ BlockedContains(blocked, Datagrams[last'.dg].ip, now))
       => /\ last'.outcome = "blocked"
          /\ nodes' = nodes
          /\ blocked' = blocked
          /\ last'.ran = <<>>
          /\ last'.out = <<>>
          /\ messages_out' = messages_out
          /\ messages_in' = messages_in + 1
          /\ pm' = "loop"]_vars

\* a bencoded integer, which ends the receive thread when it is decoded, has
\* come from the blocked ip: the loop goes on
C26_Witness ==
    /\ last.op = "receive"
    /\ last.dg = 39
    /\ last.outcome = "blocked"
    /\ pm = "loop"
    /\ nodes = last.pre
    /\ blocked = last.preBlocked

----------------------------------------------------------------------------
(* Properties of the handlers, checked under SpecPM *)

\* the last pass was over a datagram from an unblocked source whose sender
\* has a non-empty id and is valid
FromValidSender ==
    /\ last.op = "receive"
    /\ HasSender(LastDatagram, last.preBlocked, last.at)
    /\ SenderOf(LastDatagram).id # <<>>
    /\ ~InvalidSender(SenderOf(LastDatagram))

\* the label of a message, read off its keys
LabelOf(m) ==
    IF m.y = "q"
    THEN IF m.q \in {"announce_peer", "find_node", "get_peers", "ping"}
         THEN m.q \o "_request"
         ELSE IF m.q \in {"sample_infohashes", "vote"} THEN m.q ELSE "unknown"
    ELSE IF m.y = "r"
    THEN IF "values" \in Keys(m.r) THEN "get_peers_response"
         ELSE IF "nodes" \in Keys(m.r) THEN "find_node_response"
         ELSE IF Keys(m.r) \subseteq {"id", "ip", "p"} THEN "ping_response"
         ELSE "unknown"
    ELSE IF m.y = "e" THEN "error" ELSE "unknown"

\* a request with the arguments its handler reads
WellFormedRequest(m) ==
    /\ m.t # ""
    /\ \/ LabelOf(m) = "ping_request"
       \/ LabelOf(m) = "find_node_request" /\ "target" \in Keys(m.a)
       \/ LabelOf(m) = "get_peers_request" /\ "info_hash" \in Keys(m.a)
       \/ /\ LabelOf(m) = "announce_peer_request"
          /\ "info_hash" \in Keys(m.a)
          /\ \/ "port" \in Keys(m.a)
             \/ "implied_port" \in Keys(m.a) /\ m.a.d.implied_port # 0

IsRequestLabel(l) ==
    l \in {"ping_request", "find_node_request", "get_peers_request",
           "announce_peer_request"}

\* C11: a well-formed ping, find_node, get_peers or announce_peer request
\* from a valid, unblocked sender gets exactly one reply, handed to sendto
\* for the datagram's source address, with y = r, r.id = the base id and the
\* query's t; a message of any other label gets nothing sent.
C11_RequestResponse ==
    FromValidSender
    => LET m == LastDatagram.payload
       IN  /\ WellFormedRequest(m)
              => /\ Len(last.out) = 1
                 /\ last.out[1].to = <<LastDatagram.ip, LastDatagram.port>>
                 /\ last.out[1].y = "r"
                 /\ last.out[1].id = BaseId
                 /\ last.out[1].t = m.t
           /\ ~IsRequestLabel(LabelOf(m)) => last.out = <<>>

\* C12: the reply to a well-formed get_peers request carries values (the
\* compact form of every stored peer of that info_hash) and a token, and no
\* nodes, exactly when the table holds such a peer; otherwise it carries
\* nodes (the closest stored nodes, at most 7) and neither values nor token.
C12_GetPeersBranch ==
    FromValidSender
        /\ LabelOf(LastDatagram.payload) = "get_peers_request"
        /\ WellFormedRequest(LastDatagram.payload)
    => LET info_hash == LastDatagram.payload.a.d.info_hash
           peers == get_peers(nodes, info_hash)
           closest == get_closest_nodes(nodes, info_hash)
       IN  /\ Len(last.out) = 1
           /\ IF peers # <<>>
              THEN /\ last.out[1].has_values
                   /\ Range(last.out[1].values)
                        = {peer_compact_info(p) : p \in Range(peers)}
                   /\ last.out[1].has_token
                   /\ ~last.out[1].has_nodes
              ELSE /\ last.out[1].has_nodes
                   /\ Len(closest) <= 7
                   /\ last.out[1].nodes = create_compact_node_info(closest)
                   /\ ~last.out[1].has_values
                   /\ ~last.out[1].has_token

\* the peer a well-formed announce_peer request announces: the info_hash of
\* the request at the sender's ip, with the sender's source port if
\* implied_port is truthy and a.port otherwise
AnnouncedPeer(d) ==
    LET a == d.payload.a.d
        implied == "implied_port" \in DOMAIN a /\ a.implied_port # 0
    IN  Peer(a.info_hash, d.ip, IF implied THEN d.port ELSE a.port)

WellFormedAnnounce ==
    /\ FromValidSender
    /\ LabelOf(LastDatagram.payload) = "announce_peer_request"
    /\ WellFormedRequest(LastDatagram.payload)

EchoesT ==
    /\ Len(last.out) = 1
    /\ last.out[1].t = LastDatagram.payload.t

\* C13 as stated: after a well-formed announce_peer request from a valid
\* sender, whatever the table held, get_peers of the info_hash includes the
\* announced peer, and the reply echoes the transaction id.
C13_AsClaimed ==
    WellFormedAnnounce
    => /\ AnnouncedPeer(LastDatagram)
            \in Range(get_peers(nodes, AnnouncedPeer(LastDatagram).info_hash))
       /\ EchoesT

\* C13: the announced peer is stored under the sender's entry, so it is
\* stored when the sender is in the table once the all chain has run (it
\* was there already, or its distance is <= 36, or the table held fewer than
\* 7 nodes, and its id is not the base id); for any other sender the table
\* stays as it was.  The reply echoes the transaction id either way.
C13_AnnounceStoresPeer ==
    WellFormedAnnounce
    => LET peer == AnnouncedPeer(LastDatagram)
           id == SenderOf(LastDatagram).id
           admitted == /\ id # BaseId
                       /\ \/ Has(last.pre, id)
                          \/ 40 - CommonPrefixLen(id, BaseId) <= 36
                          \/ Len(last.pre) < 7
       IN  /\ EchoesT
           /\ Has(nodes, id) <=> admitted
           /\ admitted => /\ peer \in Entry(nodes, id).peers
                          /\ peer \in Range(get_peers(nodes, peer.info_hash))
           /\ ~admitted => nodes = last.pre

\* an announce_peer with implied_port = 0 from an admitted sender: the peer
\* is stored with the port named in the request
C13_Witness ==
    /\ WellFormedAnnounce
    /\ "implied_port" \in Keys(LastDatagram.payload.a)
    /\ AnnouncedPeer(LastDatagram).port # LastDatagram.port
    /\ AnnouncedPeer(LastDatagram)
         \in Range(get_peers(nodes, AnnouncedPeer(LastDatagram).info_hash))
    /\ last.pre # <<>>

\* the functions called for the last datagram, in the order of the calls
RanNames == [i \in 1..Len(last.ran) |-> last.ran[i].fn]

\* the built-in handlers of a label
BuiltIn(l) ==
    IF IsRequestLabel(l) \/ l = "find_node_response"
    THEN <<"_on_" \o l>> ELSE <<>>

\* C14: for a datagram from a valid sender the calls are, in this order and
\* once each: the built-in save of the sender, the functions added with
\* add_message_handler in the order added, then the handlers of the
\* message's label; the sender is saved with communicated = now before any
\* other handler runs, and no registered function is left out.
C14_DispatchOrder ==
    FromValidSender
    => /\ RanNames = <<"_save_node">> \o handlers
                        \o BuiltIn(LabelOf(LastDatagram.payload))
       /\ Has(nodes, SenderOf(LastDatagram).id)
            => Entry(nodes, SenderOf(LastDatagram).id).communicated = last.at

\* a ping with two functions registered: four calls, the reply last
C14_Witness ==
    /\ FromValidSender
    /\ Len(handlers) = 2
    /\ handlers[1] # handlers[2]
    /\ LabelOf(LastDatagram.payload) = "ping_request"
    /\ Len(last.ran) = 4
    /\ Len(last.out) = 1

\* a handler called for the last datagram raised
SomeRaised == \E i \in 1..Len(last.ran) : last.ran[i].raised

\* C19: when a handler called for a datagram raises, the handlers after it
\* in the chain (the rest of the "all" chain and the handlers of the label)
\* are called all the same; if the only handlers that raise are functions
\* added with add_message_handler, a well-formed ping, find_node, get_peers
\* or announce_peer request still gets its reply.
C19_FailureIsolation ==
    (FromValidSender /\ SomeRaised)
    => LET m == LastDatagram.payload
           expected == <<"_save_node">> \o handlers \o BuiltIn(LabelOf(m))
       IN  /\ Len(last.ran) = Len(expected)
           /\ \A i \in 1..Len(expected) : last.ran[i].fn = expected[i]
           /\ (WellFormedRequest(m)
                 /\ \A i \in 1..Len(last.ran) :
                      last.ran[i].raised => last.ran[i].fn \in UserHandlers)
              => /\ Len(last.out) = 1
                 /\ last.out[1].y = "r"
                 /\ last.out[1].t = m.t
                 /\ last.out[1].to = <<LastDatagram.ip, LastDatagram.port>>

\* a ping with a raising function first in the chain of added functions:
\* the function after it and _on_ping_request run, and the reply goes out
C19_Witness ==
    /\ FromValidSender
    /\ LabelOf(LastDatagram.payload) = "ping_request"
    /\ Len(last.ran) = 4
    /\ last.ran[2] = [fn |-> "user_raises", raised |-> TRUE]
    /\ last.ran[3] = [fn |-> "user_ok", raised |-> FALSE]
    /\ last.ran[4] = [fn |-> "_on_ping_request", raised |-> FALSE]
    /\ Len(last.out) = 1

\* C22: a peer (info_hash, ip, port) is in the peers of at most one stored
\* node, and get_peers returns no peer twice, whatever announce_peer
\* requests have been processed.
C22_PeerUniqueness ==
    /\ \A i, j \in 1..Len(nodes) :
         i # j => nodes[i].peers \cap nodes[j].peers = {}
    /\ \A h \in {InfoHash1, InfoHash2} :
         Len(get_peers(nodes, h)) = Cardinality(Range(get_peers(nodes, h)))

\* the keys of self._handlers other than "all"
Labels ==
    {"announce_peer_request", "announce_peer_response", "error",
     "find_node_request", "find_node_response", "get_peers_request",
     "get_peers_response", "ping_request", "ping_response",
     "sample_infohashes", "unknown", "vote"}

\* C27: every datagram that decodes to a mapping is given one label, a key
\* of the handler table: <q>_request for the queries announce_peer,
\* find_node, get_peers and ping, the query's name for sample_infohashes and
\* vote, unknown for any other query; for y = r get_peers_response if r has
\* values, else find_node_response if r has nodes, else ping_response if
\* r's keys are among id, ip, p, else unknown; error for y = e; unknown for
\* anything else.
C27_Classification ==
    (last.op = "receive" /\ last.outcome \notin {"blocked", "undecodable"}
        /\ LastDatagram.payload.type = "dict")
    => /\ last.type = LabelOf(LastDatagram.payload)
       /\ last.type \in Labels

-----------------------------------------------------------------------------
(* Properties of shutdown, checked under SpecSD                             *)

Started == pm # "not started"

\* C15: once stop() has set the event on a started node, the receive loop
\* leaves its loop and closes the socket and the maintenance loop ends, so
\* that stop() finds no thread alive and returns.
C15_Shutdown ==
    (stop_requested /\ Started) ~> (pm = "closed" /\ mrt = "done")

\* what the code does give: both threads end, the receive thread with the
\* socket closed or by an exception with the socket left open
ThreadsEnd ==
    (stop_requested /\ Started) ~> (pm \in {"closed", "crashed"} /\ mrt = "done")

-----------------------------------------------------------------------------
(* Properties of bootstrapping, checked under SpecSD, where the table is    *)
(* empty when start() is called                                             *)

\* C16: started on an empty table, the maintenance thread saves the
\* bootstrap node whatever the receive thread has done meanwhile; each of at
\* most ten rounds sends find_node with target = the local id to the closest
\* stored nodes (7 at most), and a round that finds stop set sends nothing;
\* with nothing received, the first round sends one find_node and, sendto
\* working, messages_out = 1 and messages_in = 0.
C16_Bootstrap ==
    /\ last.op = "mrt_start"
         => /\ Has(nodes, BootstrapNode.id)
            /\ mrt = "boot"
    /\ last.op = "mrt_boot"
         => /\ round < BootstrapRounds \/ last.out = <<>>
            /\ Len(last.out) <= SmallTable
            /\ \A i \in 1..Len(last.out) :
                 /\ last.out[i].q = "find_node"
                 /\ last.out[i].target = BaseId
                 /\ last.out[i].to
                      = <<get_closest_nodes(last.pre, BaseId)[i].ip,
                          get_closest_nodes(last.pre, BaseId)[i].port>>
            /\ stop_requested => last.out = <<>>
    /\ (last.op = "mrt_boot" /\ mrt = "boot_wait" /\ round = 0
          /\ messages_in = 0 /\ last.counted = Len(last.out))
         => /\ Len(last.out) = 1
            /\ last.out[1].to = <<BootstrapNode.ip, BootstrapNode.port>>
            /\ messages_out = 1

-----------------------------------------------------------------------------
(* Properties of find_node responses, checked under SpecSD                  *)

\* the nodes a find_node response lists
Listed(d) == parse_compact_node_info(d.payload.r.d.nodes)

FindNodeResponse ==
    /\ FromValidSender
    /\ last.type = "find_node_response"

ValidEntry(n) == ~InvalidSender(Node(n.id, n.ip, n.port)) /\ n.id # BaseId

\* C18: processing a datagram creates or replaces only entries with a
\* 40-character id other than the base id at distance 30 or more, a port in
\* 1..65535 and an ip other than 0.0.0.0; of the records of a find_node
\* response, an invalid one has its ip blocklisted, and a valid one is
\* saved by the admission rule.
C18_OnlyValidated ==
    last.op = "receive"
    => /\ \A i \in 1..Len(nodes) :
            (~Has(last.pre, nodes[i].id)
               \/ Entry(last.pre, nodes[i].id) # nodes[i])
            => ValidEntry(nodes[i])
       /\ FindNodeResponse
            => \A i \in 1..Len(Listed(LastDatagram)) :
                 LET rec == Listed(LastDatagram)[i]
                 IN  IF InvalidSender(rec)
                     THEN BlockedContains(blocked, rec.ip, last.at)
                     ELSE (rec.id # BaseId
                             /\ (40 - CommonPrefixLen(rec.id, BaseId)
                                   <= NearDistance
                                 \/ Len(nodes) < SmallTable))
                          => Has(nodes, rec.id)

\* a response listing a valid node, a node too near and the base id: the
\* first is saved, the second blocklisted, neither of the others saved
C18_Witness ==
    /\ FindNodeResponse
    /\ last.dg = 20
    /\ Has(nodes, Near36)
    /\ ~Has(last.pre, Near36)
    /\ ~Has(nodes, Near29)
    /\ ~Has(nodes, BaseId)
    /\ BlockedContains(blocked, "10.0.0.4", last.at)

-----------------------------------------------------------------------------
(* Properties of the maintenance cycle, checked under SpecMT                *)

\* a ping for node n is among the datagrams out
PingedIn(out, n) ==
    \E i \in 1..Len(out) : out[i].q = "ping" /\ out[i].to = <<n.ip, n.port>>

\* this step is a maintenance cycle and the last thing the node did before
\* it was the cycle before: no datagram came in between the two
NextCycle ==
    /\ last.op = "mrt_cycle"
    /\ last'.op = "mrt_cycle"
    /\ last'.at > last.at

\* C20 as stated: a node pinged in one cycle and silent since is deleted by
\* the next cycle, without another ping.
C20_AsClaimed ==
    [][NextCycle
       => \A i \in 1..Len(nodes) :
            PingedIn(last.out, nodes[i])
            => /\ ~Has(nodes', nodes[i].id)
               /\ ~PingedIn(last'.out, nodes[i])]_vars

\* C20: a cycle pings the stored nodes last heard of more than 300 s ago and
\* then deletes those last heard of more than 900 s ago; a node pinged in
\* one cycle and silent since is pinged again in the next cycle, which
\* deletes it only if it then is more than 900 s old, so that a node stored
\* over one cycle and deleted by the next has been pinged in both.
C20_ProbeThenPrune ==
    [][NextCycle
       => \A i \in 1..Len(nodes) :
            LET n == nodes[i]
            IN  /\ PingedIn(last'.out, n)
                     <=> last'.at > RefTime(n) + QuestionableAfter
                /\ Has(nodes', n.id)
                     <=> last'.at <= RefTime(n) + UnresponsiveAfter
                /\ PingedIn(last.out, n) => PingedIn(last'.out, n)
                /\ (Has(last.pre, n.id) /\ ~Has(nodes', n.id))
                   => PingedIn(last.out, n) /\ PingedIn(last'.out, n)]_vars

\* a cycle has pinged a node for at least the second time and deleted it:
\* the cycle before ran when the node was questionable and not yet
\* unresponsive
C20_Witness ==
    /\ last.op = "mrt_cycle"
    /\ \E i \in 1..Len(last.pre) :
         LET n == last.pre[i]
         IN  /\ ~Has(nodes, n.id)
             /\ PingedIn(last.out, n)
             /\ last.at - MaintainWait > RefTime(n) + QuestionableAfter
             /\ last.at - MaintainWait <= RefTime(n) + UnresponsiveAfter

\* C21: whatever the receive loop and the maintenance loop do, an id leaves
\* the table only in the deletion of a maintenance cycle, and only if the
\* entry was then last heard of (communicated, else added) more than 900 s
\* ago; so a node heard of less than 900 s before a cycle is in the table
\* after it, and the size of the table removes nothing.
C21_EvictionByFreshness ==
    [][\A i \in 1..Len(nodes) :
         ~Has(nodes', nodes[i].id)
         => /\ last'.op = "mrt_cycle"
            /\ last'.pre = nodes
            /\ last'.at > RefTime(nodes[i]) + UnresponsiveAfter]_vars

\* a cycle has deleted a node and kept one whose message came in during the
\* 900 s before it, after the node had been in the table for longer
C21_Witness ==
    /\ last.op = "mrt_cycle"
    /\ \E i \in 1..Len(last.pre) : ~Has(nodes, last.pre[i].id)
    /\ \E i \in 1..Len(nodes) :
         /\ Has(last.pre, nodes[i].id)
         /\ nodes[i].communicated # None
         /\ last.at <= nodes[i].communicated + UnresponsiveAfter
         /\ last.at > nodes[i].added + UnresponsiveAfter

-----------------------------------------------------------------------------
(* Properties of the lists the table returns, checked under SpecSN          *)

\* what the held list shows now
Shown == [i \in 1..Len(held.list) |-> held.list[i].obj]

\* C24: the list a get_* call has returned shows, whatever save_node,
\* save_peer and delete_unresponsive_nodes calls come after, what it showed
\* when it was returned: the same members with the same communicated and
\* peers.
C24_SnapshotReads == Shown = held.seen

-----------------------------------------------------------------------------
(* Properties of send_message, checked under SpecSM                         *)

\* the threads that are inside the with block of send_message
InSend ==
    {t \in Senders :
        sending[t].pc \in {"sendto", "increment", "except", "raise"}}

\* how many sends sendto took and the counter has not been incremented for
\* yet
Pending == Cardinality({t \in Senders : sending[t].pc = "increment"})

Took == sending["pm"].took + sending["mrt"].took + sending["ext"].took

\* C25: at most one thread at a time is inside the socket send of
\* send_message; messages_out is incremented once for each send that sendto
\* took and not at all for one that raised; a send that raised is not tried
\* again (each call hands its datagram to sendto once), and a send that
\* failed with an error of the socket or of the encoding returns to its
\* caller, which can call again.
C25_SendSerialization ==
    /\ [](/\ Cardinality(InSend) <= 1
          /\ \A t \in InSend : lock = t
          /\ messages_out = Took - Pending
          /\ \A t \in Senders :
                 /\ sending[t].handed =
                        sending[t].calls -
                        (IF sending[t].pc \in {"with", "sendto"} THEN 1 ELSE 0)
                 /\ sending[t].returned + sending[t].raised =
                        sending[t].calls -
                        (IF sending[t].pc = "out" THEN 0 ELSE 1)
                 /\ sending[t].raised > 0 => t = "ext")
    /\ \A t \in Senders :
           (sending[t].pc = "except") ~> (sending[t].pc = "out")

\* one thread is in sendto while another waits for the lock, and a third has
\* had one send that raised and one that was taken
C25_Witness ==
    \E t, u, v \in Senders :
        /\ sending[t].pc = "sendto"
        /\ sending[u].pc = "with"
        /\ sending[v].pc = "out"
        /\ sending[v].returned = 2
        /\ sending[v].took = 1
        /\ sending[v].calls = 2
        /\ messages_out >= 1

-----------------------------------------------------------------------------
(* Properties of log_stats, checked under SpecLS                            *)

\* C29: whenever no log_stats call is in progress, the totals the calls so
\* far have logged, plus what the two counters hold, add up to the number
\* of increments made: every increment is in the total of exactly one call,
\* or still in its counter.
C29_NoCountLost ==
    stats.pc = "out" =>
        stats.reported + messages_in + messages_out = stats.increments

====
